---------------------------- MODULE Spec2Model ----------------------------
(***************************************************************************)
(* Wire-cutter firmware: MCP23008 GPIO expander access (src/src/i2c),      *)
(* HD44780 LCD driver in 4-bit mode (src/src/i2c/lcd1602.rs), the main     *)
(* workflow (src/src/main.rs).                                             *)
(*                                                                         *)
(* Every driver function is an operator that yields the sequence of bus    *)
(* transactions and timer delays the function issues, in program order.    *)
(* The action Step executes the head of that sequence against the chip     *)
(* registers, so one step of the model is one I2C transaction or one       *)
(* delay.  Texts are sequences of character codes.                         *)
(***************************************************************************)
EXTENDS Integers, Sequences, FiniteSets, TLC

(***************************************************************************)
(* Bounds of the model                                                     *)
(***************************************************************************)
\* the time since the LCD was powered is counted up to here (microseconds)
TimeCap == 10000
\* the times between the edges of the LCD lines are counted up to here
PulseCap == 1000
\* largest repeat count given to backspace / shift_cursor
MaxCount == 2
\* key presses of the user in one run of the firmware
MaxPresses == 4
\* calls of alloc() in one run of the allocator
MaxAllocs == 3
\* largest number of cuts the user confirms in SpecWorkflow
MaxCuts == 99

(***************************************************************************)
(* 8-bit register arithmetic                                               *)
(***************************************************************************)
Bit(x, k) == (x \div (2 ^ k)) % 2

And8(a, b) ==
    Bit(a, 0) * Bit(b, 0)       + Bit(a, 1) * Bit(b, 1) * 2
  + Bit(a, 2) * Bit(b, 2) * 4   + Bit(a, 3) * Bit(b, 3) * 8
  + Bit(a, 4) * Bit(b, 4) * 16  + Bit(a, 5) * Bit(b, 5) * 32
  + Bit(a, 6) * Bit(b, 6) * 64  + Bit(a, 7) * Bit(b, 7) * 128

Or8(a, b) == a + b - And8(a, b)

Not8(a) == 255 - a

Min(a, b) == IF a < b THEN a ELSE b

(***************************************************************************)
(* src/src/i2c/mod.rs                                                      *)
(***************************************************************************)
I2C_ADDR_LCD == 32
I2C_ADDR_KEYPAD == 33
Chips == {I2C_ADDR_LCD, I2C_ADDR_KEYPAD}

IODIR == 0
GPIO == 9
GPIO_REG_ADDR == GPIO

\* One bus transaction or delay: k is the kind, a the chip address, r the
\* register, v the value, mask or duration.
MicroOp(k, a, r, v) == [k |-> k, a |-> a, r |-> r, v |-> v]

\* i2c.write(i2c_addr, [reg_addr, value])
register_value_set(i2c_addr, reg_addr, value) ==
    << MicroOp("write", i2c_addr, reg_addr, value) >>

gpio_write(i2c_addr, value) == register_value_set(i2c_addr, GPIO, value)

\* i2c.write_then_read(i2c_addr, [GPIO], rd_buffer)
gpio_read(i2c_addr) == << MicroOp("read", i2c_addr, GPIO_REG_ADDR, 0) >>

\* the mask written back without the value read
gpio_set_rmw_mut(i2c_addr, mask_val) ==
    << MicroOp("read", i2c_addr, GPIO_REG_ADDR, 0),
       MicroOp("write", i2c_addr, GPIO_REG_ADDR, mask_val) >>

\* the write-back of a read-modify-write: rd_buffer[0] | mask_val
gpio_set_rmw(i2c_addr, mask_val) ==
    << MicroOp("read", i2c_addr, GPIO_REG_ADDR, 0),
       MicroOp("write_or", i2c_addr, GPIO_REG_ADDR, mask_val) >>

\* the write-back of a read-modify-write: rd_buffer[0] & !mask_val
gpio_unset_rmw(i2c_addr, mask_val) ==
    << MicroOp("read", i2c_addr, GPIO_REG_ADDR, 0),
       MicroOp("write_andnot", i2c_addr, GPIO_REG_ADDR, mask_val) >>

\* Timer::delay_us / delay_ms
delay_us(us) == << MicroOp("delay", 0, 0, us) >>
delay_ms(ms) == delay_us(ms * 1000)

(***************************************************************************)
(* src/src/i2c/lcd1602.rs                                                  *)
(***************************************************************************)
LCD_MAX_LINE_LENGTH == 16
LCD_MAX_NEWLINES == 1
ASCII_INT_OFFSET == 48

MASK_RS == 1
MASK_RW == 2
MASK_EN == 4
MASK_D4 == 8
MASK_D5 == 16
MASK_D6 == 32
MASK_D7 == 64
MASK_ALL == 127
MASK_NONE == 0
MASK_PWR == 128

T_RCC_IN_MS == 10
T_AS_IN_US == 40
PW_EH_IN_US == 230
T_CYCE_IN_US == 500

NEWLINE == 10

power_on == gpio_set_rmw(I2C_ADDR_LCD, MASK_PWR)

power_off == gpio_unset_rmw(I2C_ADDR_LCD, MASK_PWR)

\* Enable raised with no address set-up delay before it
pulse_enable_no_setup ==
    gpio_set_rmw(I2C_ADDR_LCD, MASK_EN)
    \o delay_us(PW_EH_IN_US)
    \o gpio_unset_rmw(I2C_ADDR_LCD, MASK_EN)
    \o delay_us(T_CYCE_IN_US - PW_EH_IN_US)

\* the rest of the Enable cycle not waited out
pulse_enable_no_recovery ==
    delay_us(T_AS_IN_US)
    \o gpio_set_rmw(I2C_ADDR_LCD, MASK_EN)
    \o delay_us(PW_EH_IN_US)
    \o gpio_unset_rmw(I2C_ADDR_LCD, MASK_EN)

\* pulse_enable() that leaves Enable high
pulse_enable_stays_high ==
    delay_us(T_AS_IN_US)
    \o gpio_set_rmw(I2C_ADDR_LCD, MASK_EN)
    \o delay_us(PW_EH_IN_US)
    \o delay_us(T_CYCE_IN_US - PW_EH_IN_US)

pulse_enable ==
    delay_us(T_AS_IN_US)
    \o gpio_set_rmw(I2C_ADDR_LCD, MASK_EN)
    \o delay_us(PW_EH_IN_US)
    \o gpio_unset_rmw(I2C_ADDR_LCD, MASK_EN)
    \o delay_us(T_CYCE_IN_US - PW_EH_IN_US)

\* reset_pins() that clears Enable only
reset_pins_keeps_lines == gpio_unset_rmw(I2C_ADDR_LCD, MASK_EN)

\* reset_pins() that clears all eight bits
reset_pins_all_bits == gpio_unset_rmw(I2C_ADDR_LCD, MASK_ALL + MASK_PWR)

reset_pins == gpio_unset_rmw(I2C_ADDR_LCD, MASK_ALL)

clear_display ==
    reset_pins \o gpio_set_rmw(I2C_ADDR_LCD, MASK_NONE) \o pulse_enable
    \o reset_pins \o gpio_set_rmw(I2C_ADDR_LCD, MASK_D4) \o pulse_enable

set_4bit_2line_mode ==
    reset_pins \o gpio_set_rmw(I2C_ADDR_LCD, MASK_D5) \o pulse_enable
    \o reset_pins \o gpio_set_rmw(I2C_ADDR_LCD, MASK_D5) \o pulse_enable
    \o reset_pins \o gpio_set_rmw(I2C_ADDR_LCD, MASK_D7) \o pulse_enable

\* display on with the cursor bit left out
set_cursor_no_cursor ==
    reset_pins \o gpio_set_rmw(I2C_ADDR_LCD, MASK_NONE) \o pulse_enable
    \o reset_pins
    \o gpio_set_rmw(I2C_ADDR_LCD, Or8(MASK_D6, MASK_D7))
    \o pulse_enable

set_cursor ==
    reset_pins \o gpio_set_rmw(I2C_ADDR_LCD, MASK_NONE) \o pulse_enable
    \o reset_pins
    \o gpio_set_rmw(I2C_ADDR_LCD, Or8(MASK_D5, Or8(MASK_D6, MASK_D7)))
    \o pulse_enable

set_autoincrement ==
    reset_pins \o gpio_set_rmw(I2C_ADDR_LCD, MASK_NONE) \o pulse_enable
    \o reset_pins \o gpio_set_rmw(I2C_ADDR_LCD, Or8(MASK_D5, MASK_D6))
    \o pulse_enable

\* init() without the wait for the supply to rise
lcd1602_init_no_settle ==
    register_value_set(I2C_ADDR_LCD, IODIR, 0)
    \o set_4bit_2line_mode
    \o set_cursor
    \o set_autoincrement

lcd1602_init ==
    register_value_set(I2C_ADDR_LCD, IODIR, 0)
    \o delay_ms(T_RCC_IN_MS)
    \o set_4bit_2line_mode
    \o set_cursor
    \o set_autoincrement

\* the high nibble shifted one place too far
hi_order_mask_shift2(ascii_idx) == (And8(ascii_idx % 256, 240) \div 4) % 256

\* ((ascii_idx & (1<<4) | ... | ascii_idx & (1<<7)) >> 1) as u8
hi_order_mask(ascii_idx) == (And8(ascii_idx % 256, 240) \div 2) % 256

\* ((ascii_idx & (1<<0) | ... | ascii_idx & (1<<3)) << 3) as u8
lo_order_mask(ascii_idx) == (And8(ascii_idx % 256, 15) * 8) % 256

\* Register-Select not raised again after the pins are reset for the low
\* nibble
write_char_rs_once(c) ==
    reset_pins
    \o gpio_set_rmw(I2C_ADDR_LCD, MASK_RS)
    \o gpio_set_rmw(I2C_ADDR_LCD, hi_order_mask(c))
    \o pulse_enable
    \o reset_pins
    \o gpio_set_rmw(I2C_ADDR_LCD, lo_order_mask(c))
    \o pulse_enable

write_char(c) ==
    reset_pins
    \o gpio_set_rmw(I2C_ADDR_LCD, MASK_RS)
    \o gpio_set_rmw(I2C_ADDR_LCD, hi_order_mask(c))
    \o pulse_enable
    \o reset_pins
    \o gpio_set_rmw(I2C_ADDR_LCD, MASK_RS)
    \o gpio_set_rmw(I2C_ADDR_LCD, lo_order_mask(c))
    \o pulse_enable

Left == "Left"
Right == "Right"
Direction == {Left, Right}

RECURSIVE Repeat(_, _)
Repeat(ops, n) == IF n = 0 THEN << >> ELSE ops \o Repeat(ops, n - 1)

\* shift_cursor() whose loop runs over 0..=num_spaces
shift_cursor_inclusive(dir, num_spaces) ==
    Repeat(reset_pins \o gpio_set_rmw(I2C_ADDR_LCD, MASK_D4) \o pulse_enable
           \o reset_pins
           \o (IF dir = Right THEN gpio_set_rmw(I2C_ADDR_LCD, MASK_D6)
                              ELSE << >>)
           \o pulse_enable,
           num_spaces + 1)

shift_cursor(dir, num_spaces) ==
    Repeat(reset_pins \o gpio_set_rmw(I2C_ADDR_LCD, MASK_D4) \o pulse_enable
           \o reset_pins
           \o (IF dir = Right THEN gpio_set_rmw(I2C_ADDR_LCD, MASK_D6)
                              ELSE << >>)
           \o pulse_enable,
           num_spaces)

\* newline() that sets the address of the first cell of line 1
newline_line_one ==
    reset_pins \o gpio_set_rmw(I2C_ADDR_LCD, MASK_D7)
    \o pulse_enable
    \o reset_pins \o gpio_set_rmw(I2C_ADDR_LCD, MASK_NONE) \o pulse_enable

newline ==
    reset_pins \o gpio_set_rmw(I2C_ADDR_LCD, Or8(MASK_D6, MASK_D7))
    \o pulse_enable
    \o reset_pins \o gpio_set_rmw(I2C_ADDR_LCD, MASK_NONE) \o pulse_enable

\* backspace() that does not step back onto the cell it blanked
backspace_one_shift(count) ==
    Repeat(shift_cursor(Left, 1) \o write_char(32), count)

backspace(count) ==
    Repeat(shift_cursor(Left, 1) \o write_char(32) \o shift_cursor(Left, 1),
           count)


\* str::len of one char: its UTF-8 encoded length in bytes
len_utf8(c) == IF c < 128 THEN 1 ELSE IF c < 2048 THEN 2
               ELSE IF c < 65536 THEN 3 ELSE 4

RECURSIVE str_len(_)
str_len(s) == IF s = << >> THEN 0 ELSE len_utf8(Head(s)) + str_len(Tail(s))

\* out_str.split('\n'): the lines, as a sequence of texts (never empty)
RECURSIVE split_newline(_)
split_newline(s) ==
    IF s = << >> THEN << << >> >>
    ELSE LET rest == split_newline(Tail(s)) IN
         IF Head(s) = NEWLINE THEN << << >> >> \o rest
         ELSE << << Head(s) >> \o Head(rest) >> \o Tail(rest)

\* the sanity check at the head of write_string: enumerate() counts from 0
write_string_panics(out_str) ==
    LET lines == split_newline(out_str) IN
    \E i \in 1..Len(lines) :
        \/ str_len(lines[i]) > LCD_MAX_LINE_LENGTH
        \/ (i - 1) > LCD_MAX_NEWLINES

panic == << MicroOp("panic", 0, 0, 0) >>

RECURSIVE write_chars(_)
write_chars(s) ==
    IF s = << >> THEN << >>
    ELSE (IF Head(s) = NEWLINE THEN newline ELSE write_char(Head(s)))
         \o write_chars(Tail(s))

\* write_string() that finds the bad line after it wrote a character
write_string_checks_late(out_str) ==
    IF write_string_panics(out_str)
    THEN write_chars(<< Head(out_str) >>) \o panic
    ELSE write_chars(out_str)

write_string(out_str) ==
    IF write_string_panics(out_str) THEN panic ELSE write_chars(out_str)

\* "HI BABE! <3\nYou so pretty..."
GreetingText ==
    <<72, 73, 32, 66, 65, 66, 69, 33, 32, 60, 51, 10, 89, 111, 117, 32, 115,
      111, 32, 112, 114, 101, 116, 116, 121, 46, 46, 46>>

display_greeting == write_string(GreetingText)

\* write_u32() whose tens are not reduced modulo 100
write_u32_digits_no_mod(val) ==
    LET ones == val % 10
        tens == (val - ones) \div 10
        hundreds == ((val - tens - ones) % 1000) \div 100
        thousands == ((val - hundreds - tens - ones) % 10000) \div 1000
        ten_thousands == (val - thousands - hundreds - tens - ones) \div 10000
    IN << ten_thousands, thousands, hundreds, tens, ones >>

\* the digits of write_u32, computed as the code computes them; a negative
\* intermediate value stands for a u32 subtraction that underflowed
write_u32_digits(val) ==
    LET ones == val % 10
        tens == ((val - ones) % 100) \div 10
        hundreds == ((val - tens - ones) % 1000) \div 100
        thousands == ((val - hundreds - tens - ones) % 10000) \div 1000
        ten_thousands ==
            (val - thousands - hundreds - tens - ones) \div 10000
    IN << ten_thousands, thousands, hundreds, tens, ones >>

\* some subtraction of the digit computation underflows
write_u32_underflows(val) ==
    LET ones == val % 10
        tens == ((val - ones) % 100) \div 10
        hundreds == ((val - tens - ones) % 1000) \div 100
        thousands == ((val - hundreds - tens - ones) % 10000) \div 1000
    IN \/ val - ones < 0
       \/ val - tens - ones < 0
       \/ val - hundreds - tens - ones < 0
       \/ val - thousands - hundreds - tens - ones < 0

\* the five zero-padded ASCII values of write_u32, most significant first
write_u32_ascii_vals(val) ==
    [ i \in 1..5 |-> write_u32_digits(val)[i] + ASCII_INT_OFFSET ]

\* char::from_u32(ascii_val): None for surrogates and beyond 0x10FFFF
char_from_u32_is_none(v) == (v >= 55296 /\ v <= 57343) \/ v > 1114111

RECURSIVE write_each(_)
write_each(vals) ==
    IF vals = << >> THEN << >>
    ELSE IF char_from_u32_is_none(Head(vals)) THEN panic
    ELSE write_string(<< Head(vals) >>) \o write_each(Tail(vals))

write_u32(val) ==
    IF write_u32_underflows(val) THEN panic
    ELSE write_each(write_u32_ascii_vals(val))

(***************************************************************************)
(* i2c/keypad.rs                                                           *)
(***************************************************************************)
MASK_C2 == 1
MASK_R1 == 2
MASK_C1 == 4
MASK_R4 == 8
MASK_C3 == 16
MASK_R3 == 32
MASK_R2 == 64
MASK_ALL_ROWS == MASK_R1 + MASK_R2 + MASK_R3 + MASK_R4

\* enum Key, in the order of its declaration
Keys == << "1", "2", "3", "4", "5", "6", "7", "8", "9", "*", "0", "#" >>

\* the checks of scan(), in the order they are made: the key reported when
\* the row bit is set in the value read while the column is driven
ScanChecks ==
    << [col |-> MASK_C1, row |-> MASK_R1, key |-> "1"],
       [col |-> MASK_C1, row |-> MASK_R2, key |-> "4"],
       [col |-> MASK_C1, row |-> MASK_R3, key |-> "7"],
       [col |-> MASK_C1, row |-> MASK_R4, key |-> "*"],
       [col |-> MASK_C2, row |-> MASK_R1, key |-> "2"],
       [col |-> MASK_C2, row |-> MASK_R2, key |-> "5"],
       [col |-> MASK_C2, row |-> MASK_R3, key |-> "8"],
       [col |-> MASK_C2, row |-> MASK_R4, key |-> "0"],
       [col |-> MASK_C3, row |-> MASK_R1, key |-> "3"],
       [col |-> MASK_C3, row |-> MASK_R2, key |-> "6"],
       [col |-> MASK_C3, row |-> MASK_R3, key |-> "9"],
       [col |-> MASK_C3, row |-> MASK_R4, key |-> "#"] >>

\* checks that test the column bits of the value read as well
Detected_any_bit(col, presses) ==
    { ScanChecks[i].key : i \in { j \in 1..Len(ScanChecks) :
        /\ ScanChecks[j].col = col
        /\ And8(presses, ScanChecks[j].row + col) > 0 } }

\* checks that test the row bits without regard to the column driven
Detected_any_column(col, presses) ==
    { ScanChecks[i].key : i \in { j \in 1..Len(ScanChecks) :
        And8(presses, ScanChecks[j].row) > 0 } }

\* the keys set_key() is called for after the read under column col
Detected(col, presses) ==
    { ScanChecks[i].key : i \in { j \in 1..Len(ScanChecks) :
        ScanChecks[j].col = col /\ And8(presses, ScanChecks[j].row) > 0 } }

keypad_init == register_value_set(I2C_ADDR_KEYPAD, IODIR, MASK_ALL_ROWS)

\* one sweep of a column: drive it, read the rows, check the four row bits
sweep(col) ==
    gpio_write(I2C_ADDR_KEYPAD, col) \o gpio_read(I2C_ADDR_KEYPAD)
    \o << MicroOp("rows", I2C_ADDR_KEYPAD, GPIO, col) >>

\* scan() that sweeps C2 before C1
keypad_scan_c2_first == sweep(MASK_C2) \o sweep(MASK_C1) \o sweep(MASK_C3)

keypad_scan == sweep(MASK_C1) \o sweep(MASK_C2) \o sweep(MASK_C3)

\* impl From<Key> for &str: the character of a key
KeyChar(k) ==
    CASE k = "*" -> 42
      [] k = "#" -> 35
      [] OTHER ->
           ASCII_INT_OFFSET
           + (CHOOSE d \in 0..9 : k = <<"0", "1", "2", "3", "4", "5", "6", "7",
                                        "8", "9">>[d + 1])

(***************************************************************************)
(* servo.rs                                                                *)
(***************************************************************************)
FIFTY_HZ_IN_500KHZ_TICKS == 10000

\* common_duty[0] after set_duty(duty), duty a whole number of percent
set_duty(duty) == (FIFTY_HZ_IN_500KHZ_TICKS \div 100) * duty + 32768

(***************************************************************************)
(* main.rs: constants, literals and pure functions                         *)
(***************************************************************************)
GREETING_DUR_IN_MS == 2500
MAX_INPUT_CHARS == 5
CUT_CYCLE_TIME_MS == 1500
WIRE_FEED_TIME_MS == 3000
USER_INPUT_LEN == 12

\* "CUT LENGTH (in):\n-> "
PromptCutLength ==
    <<67, 85, 84, 32, 76, 69, 78, 71, 84, 72, 32, 40, 105, 110, 41, 58, 10,
      45, 62, 32>>
\* "NUMBER OF CUTS:\n-> "
PromptNumCuts ==
    <<78, 85, 77, 66, 69, 82, 32, 79, 70, 32, 67, 85, 84, 83, 58, 10, 45, 62,
      32>>
\* "inches x "
TextInX_long == <<105, 110, 99, 104, 101, 115, 32, 120, 32>>
\* "in x "
TextInX == <<105, 110, 32, 120, 32>>
\* "\nOK? (#=Y, *=N) "
TextOk == <<10, 79, 75, 63, 32, 40, 35, 61, 89, 44, 32, 42, 61, 78, 41, 32>>
\* "Cutting...\n00000 / "
TextCutting ==
    <<67, 117, 116, 116, 105, 110, 103, 46, 46, 46, 10, 48, 48, 48, 48, 48,
      32, 47, 32>>
\* "Finished Cutting\nWoohoo! <3"
TextFinished ==
    <<70, 105, 110, 105, 115, 104, 101, 100, 32, 67, 117, 116, 116, 105, 110,
      103, 10, 87, 111, 111, 104, 111, 111, 33, 32, 60, 51>>

RECURSIVE Pow10(_)
Pow10(n) == IF n = 0 THEN 1 ELSE 10 * Pow10(n - 1)

\* the loop of get_user_parameter over user_input.iter().rev()
\* .flat_map(|v| v.parse::<u32>()).enumerate(): slots from the last to the
\* first, those that do not parse skipped, the k-th parsed weighs 10^k
RECURSIVE parse_from(_, _, _)
parse_from(user_input, slot, order_of_magnitude) ==
    IF slot = 0 THEN 0
    ELSE IF user_input[slot] = ""
         THEN parse_from(user_input, slot - 1, order_of_magnitude)
         ELSE (KeyChar(user_input[slot]) - ASCII_INT_OFFSET)
                  * Pow10(order_of_magnitude)
              + parse_from(user_input, slot - 1, order_of_magnitude + 1)

\* a loop over user_input.iter() without .rev(): the first slot weighs 1
RECURSIVE parse_forward(_, _, _)
parse_forward(user_input, slot, order_of_magnitude) ==
    IF slot > Len(user_input) THEN 0
    ELSE IF user_input[slot] = ""
         THEN parse_forward(user_input, slot + 1, order_of_magnitude)
         ELSE (KeyChar(user_input[slot]) - ASCII_INT_OFFSET)
                  * Pow10(order_of_magnitude)
              + parse_forward(user_input, slot + 1, order_of_magnitude + 1)

parsed_input_no_rev(user_input) == parse_forward(user_input, 1, 0)

parsed_input(user_input) == parse_from(user_input, Len(user_input), 0)

\* the locals of idle() before any of them is assigned
NoInput == [i \in 1..USER_INPUT_LEN |-> ""]

LocInit ==
    [ caller |-> "none", param |-> "none", user_input |-> NoInput,
      user_input_idx |-> 0, key |-> "", cut_length |-> 0, num_cuts |-> 0,
      i |-> 0 ]

(***************************************************************************)
(* State                                                                   *)
(***************************************************************************)
VARIABLES
    gpio,       \* GPIO register of each expander chip
    iodir,      \* IODIR register of each expander chip
    rd_buffer,  \* rd_buffer[0] of the read-modify-write in progress
    todo,       \* transactions and delays the running call has yet to issue
    cur,        \* the driver call in progress, or the one that returned last
    done,       \* the initialisation calls that have returned
    fault,      \* "none", or why the program has aborted: "bus" or "panic"
    entry,      \* GPIO registers when the register-level call was made
    latched,    \* nibbles latched by Enable rising edges since cur was called
    tm,         \* elapsed-time observers of the LCD lines (microseconds)
    elapsed,    \* time has passed since TIMER1 was last started
    bus_ctx,    \* the context of the latest bus transaction since cur was called
    pc,         \* the statement of main.rs the main context executes next
    calls,      \* driver calls the current statement has yet to make
    primask,    \* interrupts are masked (inside cortex_interrupt::free)
    handle,     \* TIMER1_HANDLE: its content and whether it is borrowed
    irq,        \* TIMER1: running, interrupt enabled, interrupt pending
    isr_ret,    \* where the main context was when TIMER1() last preempted it
    kp,         \* the keypad: keys held down, key presses so far
    pressed_keys, \* pressed_keys of the keypad scan in progress
    loc,        \* local variables of idle() and the functions it calls
    servo,      \* the compare value Servo::set_duty wrote last
    remaining,  \* ALLOCATOR.remaining: the arena below this offset is free
    alloc_call, \* the call of alloc() each context has in progress
    returned    \* what the calls of alloc() returned, in the order of return

lcdvars ==
    << gpio, iodir, rd_buffer, todo, cur, done, fault, entry, latched, tm >>
allocvars == << remaining, alloc_call, returned >>
fwvars ==
    << pc, calls, primask, handle, irq, kp, pressed_keys, loc, servo,
       allocvars >>
vars == << lcdvars, elapsed, bus_ctx, isr_ret, fwvars >>

NoCall ==
    [name |-> "none", text |-> << >>, val |-> 0, dir |-> Left, addr |-> 0]

\* MCP23008 after reset: all pins inputs, output latch 0
ChipReset ==
    /\ gpio = [c \in Chips |-> 0]
    /\ iodir = [c \in Chips |-> 255]
    /\ rd_buffer = 0

\* since_*: time since the last such event; at_*: the value the matching
\* since_* had when the event named last happened
TmInit ==
    [ since_line |-> PulseCap, since_rise |-> PulseCap,
      since_fall |-> PulseCap, since_pwr |-> TimeCap,
      setup_at_rise |-> PulseCap, cycle_at_rise |-> PulseCap,
      pwr_at_rise |-> TimeCap,
      width_at_fall |-> PulseCap, recov_at_change |-> PulseCap,
      en_at_change |-> 0 ]

(***************************************************************************)
(* src/src/microbit_allocator.rs                                           *)
(***************************************************************************)
ARENA_SIZE == 16 * 1024
MAX_SUPPORTED_ALIGN == 4096

\* usize of the target
USIZE_BITS == 32

\* a & !m on usize, bit by bit from the least significant of the w bits
RECURSIVE AndNot(_, _, _)
AndNot(a, m, w) ==
    IF w = 0 THEN 0
    ELSE (a % 2) * (1 - (m % 2)) + 2 * AndNot(a \div 2, m \div 2, w - 1)

\* remaining &= align_mask_to_round_down, the mask being !(align - 1)
round_down(r, align) == AndNot(r, align - 1, USIZE_BITS)

\* the closure of fetch_update in alloc(): None when size > remaining,
\* otherwise Some(remaining), which it also leaves in `allocated`
closure(r, size, align) ==
    IF size > r THEN [some |-> FALSE, v |-> 0]
    ELSE [some |-> TRUE, v |-> round_down(r - size, align)]

\* null_mut(); any other pointer is its offset from the start of the
\* arena, which the struct's align(4096) puts at a multiple of 4096
Null == -1

\* the contexts that may call alloc(): the main context and the handler
\* that preempts it
Contexts == {"main", "TIMER1"}

\* no call of alloc() in progress
NoAlloc ==
    [at |-> "none", size |-> 0, align |-> 1, prev |-> 0, allocated |-> 0]

\* the static ALLOCATOR: remaining = ARENA_SIZE, nothing allocated
AllocReset ==
    /\ remaining = ARENA_SIZE
    /\ alloc_call = [c \in Contexts |-> NoAlloc]
    /\ returned = << >>

NoPreempt == [call |-> "none", left |-> 0]

\* the main context is at p and has done nothing; TIMER1 is stopped, its
\* handle is not stored, no key is down
FwStart(p) ==
    /\ pc = p
    /\ calls = << >>
    /\ primask = FALSE
    /\ handle = [t1 |-> "None", borrowed |-> FALSE]
    /\ irq = [running |-> FALSE, enabled |-> FALSE, unmasked |-> FALSE,
              pending |-> FALSE]
    /\ isr_ret = NoPreempt
    /\ elapsed = FALSE
    /\ bus_ctx = "none"
    /\ kp = [down |-> {}, presses |-> 0]
    /\ pressed_keys = {}
    /\ loc = LocInit
    /\ servo = 0
    /\ AllocReset

FwReset == FwStart("reset")

LcdInitState ==
    /\ ChipReset
    /\ todo = << >>
    /\ cur = NoCall
    /\ done = {}
    /\ fault = "none"
    /\ entry = [c \in Chips |-> 0]
    /\ latched = << >>
    /\ tm = TmInit

\* RS and D4..D7: the lines the controller samples at an Enable edge
MASK_LINES == MASK_RS + MASK_D4 + MASK_D5 + MASK_D6 + MASK_D7

Nibble(reg) == [rs |-> Bit(reg, 0), d |-> (reg \div 8) % 16]

\* what a write of new over old on the LCD chip's GPIO does to the observers
TmWrite(t, old, new) ==
    LET rise == Bit(old, 2) = 0 /\ Bit(new, 2) = 1
        fall == Bit(old, 2) = 1 /\ Bit(new, 2) = 0
        chg == And8(old, MASK_LINES) # And8(new, MASK_LINES)
        pwr == Bit(old, 7) = 0 /\ Bit(new, 7) = 1
    IN [ since_line |-> IF chg THEN 0 ELSE t.since_line,
         since_rise |-> IF rise THEN 0 ELSE t.since_rise,
         since_fall |-> IF fall THEN 0 ELSE t.since_fall,
         since_pwr |-> IF pwr THEN 0 ELSE t.since_pwr,
         setup_at_rise |-> IF rise THEN (IF chg THEN 0 ELSE t.since_line)
                           ELSE t.setup_at_rise,
         cycle_at_rise |-> IF rise THEN t.since_rise ELSE t.cycle_at_rise,
         pwr_at_rise |-> IF rise THEN (IF pwr THEN 0 ELSE t.since_pwr)
                         ELSE t.pwr_at_rise,
         width_at_fall |-> IF fall THEN t.since_rise ELSE t.width_at_fall,
         recov_at_change |-> IF chg THEN t.since_fall ELSE t.recov_at_change,
         en_at_change |-> IF chg THEN Bit(old, 2) ELSE t.en_at_change ]

TmDelay(t, us) ==
    [ t EXCEPT !.since_line = Min(@ + us, PulseCap),
               !.since_rise = Min(@ + us, PulseCap),
               !.since_fall = Min(@ + us, PulseCap),
               !.since_pwr = Min(@ + us, TimeCap) ]

\* the row lines of the keypad: a key held down connects its row to its
\* column, and the row is high when that column is an output driven high
RowLevels ==
    LET high == { ScanChecks[i].row : i \in { j \in 1..Len(ScanChecks) :
                    /\ ScanChecks[j].key \in kp.down
                    /\ And8(gpio[I2C_ADDR_KEYPAD], ScanChecks[j].col) > 0
                    /\ And8(iodir[I2C_ADDR_KEYPAD], ScanChecks[j].col) = 0 } }
    IN (IF MASK_R1 \in high THEN MASK_R1 ELSE 0)
       + (IF MASK_R2 \in high THEN MASK_R2 ELSE 0)
       + (IF MASK_R3 \in high THEN MASK_R3 ELSE 0)
       + (IF MASK_R4 \in high THEN MASK_R4 ELSE 0)

\* what a read of the GPIO register returns: on the keypad chip the pins
\* that are inputs show the row lines, the others what was written last
PinRead(a) ==
    IF a = I2C_ADDR_KEYPAD
    THEN Or8(And8(gpio[a], Not8(iodir[a])), And8(RowLevels, iodir[a]))
    ELSE gpio[a]

(***************************************************************************)
(* Execution of one transaction or delay                                   *)
(***************************************************************************)
Aborted == fault # "none"

Running == ~Aborted /\ todo # << >>

\* the call returns when its last transaction or delay has been issued;
\* after power_off the display is to be powered and initialised again
InitCalls == {"power_on", "init", "keypad_init"}
Returned(rest) ==
    IF rest # << >> THEN done
    ELSE IF cur.name = "power_off" THEN done \ {"power_on", "init"}
    ELSE done \cup ({cur.name} \cap InitCalls)

\* a register write reaching the chip
RegWrite(a, r, value) ==
    /\ gpio' = IF r = GPIO THEN [gpio EXCEPT ![a] = value] ELSE gpio
    /\ iodir' = IF r = IODIR THEN [iodir EXCEPT ![a] = value] ELSE iodir
    /\ IF r = GPIO /\ a = I2C_ADDR_LCD
       THEN /\ tm' = TmWrite(tm, gpio[a], value)
            /\ latched' = IF Bit(gpio[a], 2) = 0 /\ Bit(value, 2) = 1
                          THEN Append(latched, Nibble(value))
                          ELSE latched
       ELSE UNCHANGED << tm, latched >>

\* i2c.write_then_read(..).unwrap() succeeded
BusRead ==
    /\ Running
    /\ Head(todo).k = "read"
    /\ rd_buffer' = PinRead(Head(todo).a)
    /\ todo' = Tail(todo)
    /\ done' = Returned(Tail(todo))
    /\ elapsed' = TRUE
    /\ bus_ctx' = "main"
    /\ UNCHANGED << gpio, iodir, cur, fault, entry, latched, tm >>
    /\ UNCHANGED << isr_ret, fwvars >>

\* i2c.write(..).unwrap() succeeded
BusWrite ==
    /\ Running
    /\ Head(todo).k \in {"write", "write_or", "write_andnot"}
    /\ LET op == Head(todo)
           value == CASE op.k = "write" -> op.v
                      [] op.k = "write_or" -> Or8(rd_buffer, op.v)
                      [] op.k = "write_andnot" -> And8(rd_buffer, Not8(op.v))
       IN RegWrite(op.a, op.r, value)
    /\ todo' = Tail(todo)
    /\ done' = Returned(Tail(todo))
    /\ elapsed' = TRUE
    /\ bus_ctx' = "main"
    /\ UNCHANGED << rd_buffer, cur, fault, entry >>
    /\ UNCHANGED << isr_ret, fwvars >>

\* a failed transaction after which the rest of the call is still to be done
Abort_keeps_rest ==
    /\ Running
    /\ Head(todo).k \in {"read", "write", "write_or", "write_andnot", "panic"}
    /\ IF Head(todo).k = "panic"
       THEN /\ fault' = "panic"
            /\ UNCHANGED << elapsed, bus_ctx >>
       ELSE /\ fault' = "bus"
            /\ elapsed' = TRUE
            /\ bus_ctx' = "main"
    /\ todo' = Tail(todo)
    /\ UNCHANGED << gpio, iodir, rd_buffer, cur, done, entry, latched, tm >>
    /\ UNCHANGED << isr_ret, fwvars >>

\* the program aborts: the unwrap() of a failed bus transaction, a panic!()
\* or an unwrap() on None
Abort ==
    /\ Running
    /\ Head(todo).k \in {"read", "write", "write_or", "write_andnot", "panic"}
    /\ IF Head(todo).k = "panic"
       THEN /\ fault' = "panic"
            /\ UNCHANGED << elapsed, bus_ctx >>
       ELSE /\ fault' = "bus"
            /\ elapsed' = TRUE
            /\ bus_ctx' = "main"
    /\ todo' = << >>
    /\ UNCHANGED << gpio, iodir, rd_buffer, cur, done, entry, latched, tm >>
    /\ UNCHANGED << isr_ret, fwvars >>

Delay ==
    /\ Running
    /\ Head(todo).k = "delay"
    /\ tm' = TmDelay(tm, Head(todo).v)
    /\ todo' = Tail(todo)
    /\ done' = Returned(Tail(todo))
    /\ elapsed' = TRUE
    /\ UNCHANGED bus_ctx
    /\ UNCHANGED << gpio, iodir, rd_buffer, cur, fault, entry, latched >>
    /\ UNCHANGED << isr_ret, fwvars >>

Step == BusRead \/ BusWrite \/ Abort \/ Delay

(***************************************************************************)
(* A driver call: the caller is between calls, the callee's transactions   *)
(* and delays become the work to do                                        *)
(***************************************************************************)
Idle == ~Aborted /\ todo = << >>

Call(c, ops) ==
    /\ cur' = c
    /\ todo' = ops
    /\ latched' = << >>
    /\ done' = IF ops = << >> THEN done \cup ({c.name} \cap InitCalls)
                ELSE done
    /\ entry' = IF c.name \in {"gpio_set_rmw", "gpio_unset_rmw"} \/ cur = NoCall
                 THEN gpio ELSE entry
    /\ isr_ret' = NoPreempt
    /\ bus_ctx' = "none"
    /\ UNCHANGED << gpio, iodir, rd_buffer, fault, tm, elapsed >>

(***************************************************************************)
(* SpecLcd: a client that uses the LCD driver as the state machine of the  *)
(* driver allows: power_on, init, then any sequence of display operations, *)
(* and power_off at any time after power_on, which takes it to the start   *)
(***************************************************************************)
CallOf(name) == [NoCall EXCEPT !.name = name]

\* texts given to write_string: single characters, literals of
\* main.rs, lines of 16 and 17 characters, zero to two newlines
Line16 == <<48, 49, 50, 51, 52, 53, 54, 55, 56, 57, 65, 66, 67, 68, 69, 70>>
Texts ==
    { << c >> : c \in {0, NEWLINE, 32, 65, 127, 128, 233, 255} }
    \cup { << >>,
           << 65, NEWLINE >>, << NEWLINE, 66 >>, << 65, NEWLINE, 66 >>,
           << NEWLINE, NEWLINE >>, << 65, NEWLINE, 66, NEWLINE, 67 >>,
           Line16, Line16 \o << 71 >>,
           Line16 \o << NEWLINE >> \o Line16,
           Line16 \o << NEWLINE >> \o Line16 \o << 71 >>,
           <<48, 49, 50, 51, 52, 53, 54, 55, 56, 57, 48, 49, 50, 51, 52, 53,
             54, 10>>,
           <<67, 85, 84, 32, 76, 69, 78, 71, 84, 72, 32, 40, 105, 110, 41,
             58, 10, 45, 62, 32>>,
           <<233, 233, 233, 233, 233, 233, 233, 233>>,
           <<233, 233, 233, 233, 233, 233, 233, 233, 233>> }

\* values given to write_u32
U32Values == {0, 7, 42, 90210, 99999}

LcdPowerOn ==
    /\ Idle
    /\ "power_on" \notin done
    /\ Call(CallOf("power_on"), power_on)
    /\ UNCHANGED fwvars

\* power_off, at any time after power_on
LcdPowerOff ==
    /\ Idle
    /\ "power_on" \in done
    /\ Call(CallOf("power_off"), power_off)
    /\ UNCHANGED fwvars

LcdInit ==
    /\ Idle
    /\ "power_on" \in done
    /\ "init" \notin done
    /\ Call(CallOf("init"), lcd1602_init)
    /\ UNCHANGED fwvars

Ready == "init" \in done

LcdWriteString ==
    /\ Idle /\ Ready
    /\ \E text \in Texts :
        Call([CallOf("write_string") EXCEPT !.text = text],
             write_string(text))
    /\ UNCHANGED fwvars

\* write_char on its own, for every character code of one byte
LcdWriteChar ==
    /\ Idle /\ Ready
    /\ \E c \in 0..255 :
        Call([CallOf("write_char") EXCEPT !.val = c], write_char(c))
    /\ UNCHANGED fwvars

LcdWriteU32 ==
    /\ Idle /\ Ready
    /\ \E v \in U32Values :
        Call([CallOf("write_u32") EXCEPT !.val = v], write_u32(v))
    /\ UNCHANGED fwvars

LcdBackspace ==
    /\ Idle /\ Ready
    /\ \E n \in 0..MaxCount :
        Call([CallOf("backspace") EXCEPT !.val = n], backspace(n))
    /\ UNCHANGED fwvars

LcdClearDisplay ==
    /\ Idle /\ Ready
    /\ Call(CallOf("clear_display"), clear_display)
    /\ UNCHANGED fwvars

LcdShiftCursor ==
    /\ Idle /\ Ready
    /\ \E dir \in Direction, n \in 0..MaxCount :
        Call([CallOf("shift_cursor") EXCEPT !.dir = dir, !.val = n],
             shift_cursor(dir, n))
    /\ UNCHANGED fwvars

LcdDisplayGreeting ==
    /\ Idle /\ Ready
    /\ Call(CallOf("display_greeting"), display_greeting)
    /\ UNCHANGED fwvars

InitLcd == LcdInitState /\ FwReset

NextLcd ==
    \/ LcdPowerOn \/ LcdPowerOff \/ LcdInit
    \/ LcdWriteString \/ LcdWriteChar \/ LcdWriteU32 \/ LcdBackspace
    \/ LcdClearDisplay \/ LcdShiftCursor \/ LcdDisplayGreeting
    \/ BusRead \/ BusWrite \/ Abort \/ Delay

SpecLcd == InitLcd /\ [][NextLcd]_vars

(***************************************************************************)
(* SpecGpio: one call of a read-modify-write helper of i2c/mod.rs, with    *)
(* any of the masks on either chip, from any register content              *)
(***************************************************************************)
\* register contents the calls start from, and the masks they are given
RegValues == 0..255
OtherRegValues == {0, 90, 255}
MaskValues == {MASK_NONE, MASK_RS, MASK_EN, MASK_ALL, MASK_PWR, 85, 255}

InitGpio ==
    /\ \E x \in RegValues, y \in OtherRegValues :
        gpio = [c \in Chips |-> IF c = I2C_ADDR_LCD THEN x ELSE y]
    /\ iodir = [c \in Chips |-> 0]
    /\ rd_buffer = 0
    /\ todo = << >>
    /\ cur = NoCall
    /\ done = {}
    /\ fault = "none"
    /\ entry = gpio
    /\ latched = << >>
    /\ tm = TmInit
    /\ FwReset

GpioSetRmw ==
    /\ Idle /\ cur = NoCall
    /\ \E a \in Chips, m \in MaskValues :
        Call([CallOf("gpio_set_rmw") EXCEPT !.addr = a, !.val = m],
             gpio_set_rmw(a, m))
    /\ UNCHANGED fwvars

GpioUnsetRmw ==
    /\ Idle /\ cur = NoCall
    /\ \E a \in Chips, m \in MaskValues :
        Call([CallOf("gpio_unset_rmw") EXCEPT !.addr = a, !.val = m],
             gpio_unset_rmw(a, m))
    /\ UNCHANGED fwvars

NextGpio == GpioSetRmw \/ GpioUnsetRmw \/ BusRead \/ BusWrite \/ Abort

SpecGpio == InitGpio /\ [][NextGpio]_vars

(***************************************************************************)
(* Spec: the firmware, main.rs.  The main context runs init() and idle()   *)
(* statement by statement; a statement makes driver calls, a driver call   *)
(* issues bus transactions and delays.  TIMER1 fires when time has passed  *)
(* since it was started and its handler runs whenever interrupts are not   *)
(* masked.  A bus transaction or a delay may take any time, the statements *)
(* between them none.  The user presses the keys of FwKeys, one at a time. *)
(***************************************************************************)
FwKeys == {"1", "*", "#"}

\* the transactions and delays a driver call issues
OpsOf(c) ==
    CASE c.name = "power_on" -> power_on
      [] c.name = "power_off" -> power_off
      [] c.name = "init" -> lcd1602_init
      [] c.name = "keypad_init" -> keypad_init
      [] c.name = "display_greeting" -> display_greeting
      [] c.name = "clear_display" -> clear_display
      [] c.name = "write_string" -> write_string(c.text)
      [] c.name = "write_char" -> write_char(c.val)
      [] c.name = "write_u32" -> write_u32(c.val)
      [] c.name = "backspace" -> backspace(c.val)
      [] c.name = "shift_cursor" -> shift_cursor(c.dir, c.val)
      [] c.name = "delay_ms" -> delay_ms(c.val)
      [] c.name = "delay_us" -> delay_us(c.val)
      [] c.name = "scan" -> keypad_scan
      [] c.name = "gpio_set_rmw" -> gpio_set_rmw(c.addr, c.val)
      [] c.name = "gpio_unset_rmw" -> gpio_unset_rmw(c.addr, c.val)
      [] OTHER -> << >>

CallVal(name, val) == [CallOf(name) EXCEPT !.val = val]
CallText(name, text) == [CallOf(name) EXCEPT !.text = text]

\* init() that stores the TIMER1 handle after lcd1602::power_on
main_init_stores_timer1_late ==
    << "timer0", "timer1", "i2c_init", "power_on", "store_timer1",
       "lvshift_oe", "lcd_init", "lcd_init_exit", "keypad_init", "servo_new",
       "store_handles" >>

\* init() without the initialisation of the keypad
main_init_no_keypad_init ==
    << "timer0", "timer1", "store_timer1", "i2c_init", "power_on",
       "lvshift_oe", "lcd_init", "lcd_init_exit", "servo_new",
       "store_handles" >>

\* init() without the initialisation of the LCD
main_init_no_lcd_init ==
    << "timer0", "timer1", "store_timer1", "i2c_init", "power_on",
       "lvshift_oe", "keypad_init", "servo_new", "store_handles" >>

\* the statements of init(), in program order
main_init ==
    << "timer0", "timer1", "store_timer1", "i2c_init", "power_on",
       "lvshift_oe", "lcd_init", "lcd_init_exit", "keypad_init", "servo_new",
       "store_handles" >>

\* the statement after s of init(); idle() follows init()
StmtAfter(s) ==
    LET i == CHOOSE j \in 1..Len(main_init) : main_init[j] = s
    IN IF i = Len(main_init) THEN "idle" ELSE main_init[i + 1]

\* the main context is about to execute statement s
At(s) == pc = s /\ Idle /\ calls = << >>

\* the statement makes the driver calls cs, one after the other
Make(cs) ==
    /\ calls' = cs
    /\ UNCHANGED << lcdvars, elapsed, bus_ctx, isr_ret >>

\* init_1s_timer(board.TIMER0): TIMER0 counts, and the function unmasks
\* Interrupt::TIMER1 in the NVIC
InitTimer0 ==
    /\ At("timer0")
    /\ pc' = StmtAfter("timer0")
    /\ irq' = [irq EXCEPT !.unmasked = TRUE]
    /\ Make(<< >>)
    /\ UNCHANGED << primask, handle, kp, pressed_keys, loc, servo, allocvars >>

\* init_1s_timer(board.TIMER1): interrupt enabled, unmasked, timer started
InitTimer1 ==
    /\ At("timer1")
    /\ pc' = StmtAfter("timer1")
    /\ irq' = [running |-> TRUE, enabled |-> TRUE, unmasked |-> TRUE,
               pending |-> FALSE]
    /\ elapsed' = FALSE
    /\ calls' = << >>
    /\ UNCHANGED << lcdvars, bus_ctx, isr_ret >>
    /\ UNCHANGED << primask, handle, kp, pressed_keys, loc, servo, allocvars >>

\* cortex_interrupt::free(|cs| TIMER1_HANDLE.borrow(cs).replace(Some(timer1)))
StoreTimer1 ==
    /\ At("store_timer1")
    /\ pc' = StmtAfter("store_timer1")
    /\ handle' = [handle EXCEPT !.t1 = "Some"]
    /\ Make(<< >>)
    /\ UNCHANGED << primask, irq, kp, pressed_keys, loc, servo, allocvars >>

\* i2c::init, lcd_lvshift_oe_pin.set_low(), the stores of the other handles:
\* no bus transaction and nothing the interrupt handler reads
InitPeripheral ==
    /\ \E s \in {"i2c_init", "lvshift_oe", "store_handles"} :
        /\ At(s)
        /\ pc' = StmtAfter(s)
    /\ Make(<< >>)
    /\ UNCHANGED << primask, handle, irq, kp, pressed_keys, loc, servo, allocvars >>

\* lcd1602::power_on(&mut i2c0), interrupts enabled
InitPowerOn ==
    /\ At("power_on")
    /\ pc' = StmtAfter("power_on")
    /\ Make(<< CallOf("power_on") >>)
    /\ UNCHANGED << primask, handle, irq, kp, pressed_keys, loc, servo, allocvars >>

\* cortex_interrupt::free(|cs| { borrow_mut(); as_mut().unwrap();
\* lcd1602::init(local_timer1_handle, &mut i2c0) })
InitLcdEnter ==
    /\ At("lcd_init")
    /\ IF handle.borrowed \/ handle.t1 = "None"
       THEN /\ fault' = "panic"
            /\ UNCHANGED << gpio, iodir, rd_buffer, todo, cur, done, entry,
                            latched, tm, elapsed, bus_ctx, isr_ret >>
            /\ UNCHANGED << pc, calls, primask, handle >>
       ELSE /\ pc' = StmtAfter("lcd_init")
            /\ primask' = TRUE
            /\ handle' = [handle EXCEPT !.borrowed = TRUE]
            /\ Make(<< CallOf("init") >>)
    /\ UNCHANGED << irq, kp, pressed_keys, loc, servo, allocvars >>

\* the end of that closure: the borrow is dropped, interrupts are unmasked
InitLcdExit ==
    /\ At("lcd_init_exit")
    /\ pc' = StmtAfter("lcd_init_exit")
    /\ primask' = FALSE
    /\ handle' = [handle EXCEPT !.borrowed = FALSE]
    /\ Make(<< >>)
    /\ UNCHANGED << irq, kp, pressed_keys, loc, servo, allocvars >>

\* keypad::init(&mut i2c0), interrupts enabled
InitKeypad ==
    /\ At("keypad_init")
    /\ pc' = StmtAfter("keypad_init")
    /\ Make(<< CallOf("keypad_init") >>)
    /\ UNCHANGED << primask, handle, irq, kp, pressed_keys, loc, servo, allocvars >>

\* Servo::new: common_duty = [0, 0]
InitServo ==
    /\ At("servo_new")
    /\ pc' = StmtAfter("servo_new")
    /\ servo' = 0
    /\ Make(<< >>)
    /\ UNCHANGED << primask, handle, irq, kp, pressed_keys, loc, allocvars >>

\* idle(): the critical section is entered; greeting and its delay
IdleEnter ==
    /\ At("idle")
    /\ pc' = "prompt_len"
    /\ primask' = TRUE
    /\ Make(<< CallOf("display_greeting"),
               CallVal("delay_ms", GREETING_DUR_IN_MS) >>)
    /\ UNCHANGED << handle, irq, kp, pressed_keys, loc, servo, allocvars >>

\* get_user_parameter(prompt, ..) up to its loop
PromptParameter ==
    /\ \E p \in {"len", "num"} :
        /\ At(IF p = "len" THEN "prompt_len" ELSE "prompt_num")
        /\ Make(<< CallOf("clear_display"),
                   CallText("write_string",
                            IF p = "len" THEN PromptCutLength
                            ELSE PromptNumCuts) >>)
        /\ loc' = [loc EXCEPT !.caller = "gup", !.param = p,
                              !.user_input = NoInput, !.user_input_idx = 0]
    /\ pc' = "scan"
    /\ UNCHANGED << primask, handle, irq, kp, pressed_keys, servo, allocvars >>

\* keypad::scan(timer, i2c): the first scan
ScanFirst ==
    /\ At("scan")
    /\ pc' = "scan_result"
    /\ Make(<< CallOf("scan") >>)
    /\ UNCHANGED << primask, handle, irq, kp, pressed_keys, loc, servo, allocvars >>

\* no key pressed: None, and the loop of the caller scans again
ScanNone ==
    /\ At("scan_result")
    /\ pressed_keys = {}
    /\ pc' = "scan"
    /\ Make(<< >>)
    /\ UNCHANGED << primask, handle, irq, kp, pressed_keys, loc, servo, allocvars >>

\* the key a scan that detected the set s reports
FirstKey(s) == Keys[CHOOSE i \in 1..Len(Keys) :
                      Keys[i] \in s /\ \A j \in 1..(i - 1) : Keys[j] \notin s]

\* a key is detected: it is kept, and the scan waits for its release
ScanDetected ==
    /\ At("scan_result")
    /\ pressed_keys # {}
    /\ pc' = "debounce"
    /\ loc' = [loc EXCEPT !.key = FirstKey(pressed_keys)]
    /\ Make(<< >>)
    /\ UNCHANGED << primask, handle, irq, kp, pressed_keys, servo, allocvars >>

KEYPAD_DEBOUNCE_US == 250

\* the delay between re-scans, and the re-scan
Debounce ==
    /\ At("debounce")
    /\ pc' = "debounce_result"
    /\ Make(<< CallVal("delay_us", KEYPAD_DEBOUNCE_US), CallOf("scan") >>)
    /\ UNCHANGED << primask, handle, irq, kp, pressed_keys, loc, servo, allocvars >>

\* a re-scan that returns the key although a key is still pressed
DebounceHeld_returns ==
    /\ At("debounce_result")
    /\ pressed_keys # {}
    /\ pc' = IF loc.caller = "gup" THEN "gup_key" ELSE "fc_key"
    /\ Make(<< >>)
    /\ UNCHANGED << primask, handle, irq, kp, pressed_keys, loc, servo, allocvars >>

\* some key is still pressed: scan again
DebounceHeld ==
    /\ At("debounce_result")
    /\ pressed_keys # {}
    /\ pc' = "debounce"
    /\ Make(<< >>)
    /\ UNCHANGED << primask, handle, irq, kp, pressed_keys, loc, servo, allocvars >>

\* a loop that gives up after the first re-scan, a key pressed or not
DebounceReleased_or_not ==
    /\ At("debounce_result")
    /\ pc' = IF loc.caller = "gup" THEN "gup_key" ELSE "fc_key"
    /\ Make(<< >>)
    /\ UNCHANGED << primask, handle, irq, kp, pressed_keys, loc, servo, allocvars >>

\* no key is pressed any more: Some(key) to the caller
DebounceReleased ==
    /\ At("debounce_result")
    /\ pressed_keys = {}
    /\ pc' = IF loc.caller = "gup" THEN "gup_key" ELSE "fc_key"
    /\ Make(<< >>)
    /\ UNCHANGED << primask, handle, irq, kp, pressed_keys, loc, servo, allocvars >>

\* get_user_parameter: '#' parses and returns the input
GupAccept ==
    /\ At("gup_key")
    /\ loc.key = "#"
    /\ LET v == parsed_input(loc.user_input)
       IN IF loc.param = "len"
          THEN /\ pc' = "prompt_num"
               /\ loc' = [loc EXCEPT !.cut_length = v, !.key = "",
                                     !.user_input = NoInput,
                                     !.user_input_idx = 0]
          ELSE /\ pc' = "confirm"
               /\ loc' = [loc EXCEPT !.num_cuts = v, !.key = "",
                                     !.user_input = NoInput,
                                     !.user_input_idx = 0]
    /\ Make(<< >>)
    /\ UNCHANGED << primask, handle, irq, kp, pressed_keys, servo, allocvars >>

\* get_user_parameter that forgets the digit without erasing it on the LCD
GupBackspace_no_erase ==
    /\ At("gup_key")
    /\ loc.key = "*"
    /\ pc' = "scan"
    /\ Make(<< >>)
    /\ loc' = IF loc.user_input_idx > 0
              THEN [loc EXCEPT !.user_input_idx = @ - 1,
                               !.user_input[loc.user_input_idx] = "",
                               !.key = ""]
              ELSE [loc EXCEPT !.key = ""]
    /\ UNCHANGED << primask, handle, irq, kp, pressed_keys, servo, allocvars >>

\* get_user_parameter: '*' erases the last digit, if there is one
GupBackspace ==
    /\ At("gup_key")
    /\ loc.key = "*"
    /\ pc' = "scan"
    /\ IF loc.user_input_idx > 0
       THEN /\ Make(<< CallVal("backspace", 1) >>)
            /\ loc' = [loc EXCEPT !.user_input_idx = @ - 1,
                                  !.user_input[loc.user_input_idx] = "",
                                  !.key = ""]
       ELSE /\ Make(<< >>)
            /\ loc' = [loc EXCEPT !.key = ""]
    /\ UNCHANGED << primask, handle, irq, kp, pressed_keys, servo, allocvars >>

\* get_user_parameter that records digits while the array has room
GupDigit_no_limit ==
    /\ At("gup_key")
    /\ loc.key \notin {"#", "*"}
    /\ pc' = "scan"
    /\ IF loc.user_input_idx < USER_INPUT_LEN
       THEN /\ Make(<< CallText("write_string", << KeyChar(loc.key) >>) >>)
            /\ loc' = [loc EXCEPT !.user_input[loc.user_input_idx + 1] =
                                      loc.key,
                                  !.user_input_idx = @ + 1,
                                  !.key = ""]
       ELSE /\ Make(<< >>)
            /\ loc' = [loc EXCEPT !.key = ""]
    /\ UNCHANGED << primask, handle, irq, kp, pressed_keys, servo, allocvars >>

\* get_user_parameter whose test for room is user_input_idx <= MAX_INPUT_CHARS
GupDigit_one_more ==
    /\ At("gup_key")
    /\ loc.key \notin {"#", "*"}
    /\ pc' = "scan"
    /\ IF loc.user_input_idx <= MAX_INPUT_CHARS
       THEN /\ Make(<< CallText("write_string", << KeyChar(loc.key) >>) >>)
            /\ loc' = [loc EXCEPT !.user_input[loc.user_input_idx + 1] =
                                      loc.key,
                                  !.user_input_idx = @ + 1,
                                  !.key = ""]
       ELSE /\ Make(<< >>)
            /\ loc' = [loc EXCEPT !.key = ""]
    /\ UNCHANGED << primask, handle, irq, kp, pressed_keys, servo, allocvars >>

\* get_user_parameter: any other key is written and recorded, if there is
\* room
GupDigit ==
    /\ At("gup_key")
    /\ loc.key \notin {"#", "*"}
    /\ pc' = "scan"
    /\ IF loc.user_input_idx < MAX_INPUT_CHARS
       THEN /\ Make(<< CallText("write_string", << KeyChar(loc.key) >>) >>)
            /\ loc' = [loc EXCEPT !.user_input[loc.user_input_idx + 1] =
                                      loc.key,
                                  !.user_input_idx = @ + 1,
                                  !.key = ""]
       ELSE /\ Make(<< >>)
            /\ loc' = [loc EXCEPT !.key = ""]
    /\ UNCHANGED << primask, handle, irq, kp, pressed_keys, servo, allocvars >>

\* final_confirmation(cut_length, num_cuts, ..) up to its loop
Confirm ==
    /\ At("confirm")
    /\ pc' = "scan"
    /\ Make(<< CallOf("clear_display"),
               CallVal("write_u32", loc.cut_length),
               CallText("write_string", TextInX),
               CallVal("write_u32", loc.num_cuts),
               CallText("write_string", TextOk) >>)
    /\ loc' = [loc EXCEPT !.caller = "fc", !.param = "none"]
    /\ UNCHANGED << primask, handle, irq, kp, pressed_keys, servo, allocvars >>

\* final_confirmation that takes any key but '*' for an acceptance
ConfirmKey_accepts_any ==
    /\ At("fc_key")
    /\ pc' = IF loc.key = "*" THEN "prompt_len" ELSE "cutting"
    /\ loc' = [loc EXCEPT !.key = ""]
    /\ Make(<< >>)
    /\ UNCHANGED << primask, handle, irq, kp, pressed_keys, servo, allocvars >>

\* final_confirmation: '#' accepts, '*' rejects and the input loop starts
\* again, any other key is ignored
ConfirmKey ==
    /\ At("fc_key")
    /\ pc' = CASE loc.key = "#" -> "cutting"
               [] loc.key = "*" -> "prompt_len"
               [] OTHER -> "scan"
    /\ loc' = [loc EXCEPT !.key = ""]
    /\ Make(<< >>)
    /\ UNCHANGED << primask, handle, irq, kp, pressed_keys, servo, allocvars >>

\* the cutting loop up to its for
CuttingBegin ==
    /\ At("cutting")
    /\ pc' = "cut_loop"
    /\ Make(<< CallOf("clear_display"),
               CallText("write_string", TextCutting),
               CallVal("write_u32", loc.num_cuts),
               [CallOf("shift_cursor") EXCEPT !.dir = Left, !.val = 8] >>)
    /\ loc' = [loc EXCEPT !.i = 1, !.caller = "none"]
    /\ UNCHANGED << primask, handle, irq, kp, pressed_keys, servo, allocvars >>

\* for i in 1..num_cuts: a loop that leaves out the last pass
CutLoop_exclusive ==
    /\ At("cut_loop")
    /\ IF loc.i < loc.num_cuts
       THEN /\ pc' = "cut_on"
            /\ Make(<< CallVal("backspace", 5), CallVal("write_u32", loc.i) >>)
       ELSE /\ pc' = "finish"
            /\ Make(<< >>)
    /\ UNCHANGED << primask, handle, irq, kp, pressed_keys, loc, servo, allocvars >>

\* for i in 1..=num_cuts: the update of the LCD, or the end of the loop
CutLoop ==
    /\ At("cut_loop")
    /\ IF loc.i <= loc.num_cuts
       THEN /\ pc' = "cut_on"
            /\ Make(<< CallVal("backspace", 5), CallVal("write_u32", loc.i) >>)
       ELSE /\ pc' = "finish"
            /\ Make(<< >>)
    /\ UNCHANGED << primask, handle, irq, kp, pressed_keys, loc, servo, allocvars >>

\* cutter.set_duty(12.0); timer0.delay_ms(CUT_CYCLE_TIME_MS)
CutOn ==
    /\ At("cut_on")
    /\ pc' = "cut_off"
    /\ servo' = set_duty(12)
    /\ Make(<< CallVal("delay_ms", CUT_CYCLE_TIME_MS) >>)
    /\ UNCHANGED << primask, handle, irq, kp, pressed_keys, loc, allocvars >>

\* a loop body that does not advance i
CutOff_no_advance ==
    /\ At("cut_off")
    /\ pc' = "cut_loop"
    /\ servo' = set_duty(3)
    /\ Make(<< CallVal("delay_ms", WIRE_FEED_TIME_MS) >>)
    /\ UNCHANGED << primask, handle, irq, kp, pressed_keys, loc, allocvars >>

\* cutter.set_duty(3.0); timer0.delay_ms(WIRE_FEED_TIME_MS)
CutOff ==
    /\ At("cut_off")
    /\ pc' = "cut_loop"
    /\ servo' = set_duty(3)
    /\ Make(<< CallVal("delay_ms", WIRE_FEED_TIME_MS) >>)
    /\ loc' = [loc EXCEPT !.i = @ + 1]
    /\ UNCHANGED << primask, handle, irq, kp, pressed_keys, allocvars >>

\* after the loop: the finish message
Finish ==
    /\ At("finish")
    /\ pc' = "idle_exit"
    /\ Make(<< CallOf("clear_display"),
               CallText("write_string", TextFinished) >>)
    /\ UNCHANGED << primask, handle, irq, kp, pressed_keys, loc, servo, allocvars >>

\* the end of the critical section of idle()
IdleExit ==
    /\ At("idle_exit")
    /\ pc' = "loop"
    /\ primask' = FALSE
    /\ Make(<< >>)
    /\ UNCHANGED << handle, irq, kp, pressed_keys, loc, servo, allocvars >>

\* loop { cortex_interrupt::free(|cs| { timer0.delay_ms(500_u32) }) }
LoopDelay ==
    /\ At("loop")
    /\ pc' = "loop_exit"
    /\ primask' = TRUE
    /\ Make(<< CallVal("delay_ms", 500) >>)
    /\ UNCHANGED << handle, irq, kp, pressed_keys, loc, servo, allocvars >>

LoopExit ==
    /\ At("loop_exit")
    /\ pc' = "loop"
    /\ primask' = FALSE
    /\ Make(<< >>)
    /\ UNCHANGED << handle, irq, kp, pressed_keys, loc, servo, allocvars >>

\* the next driver call of the statement is made
NextCall ==
    /\ Idle
    /\ calls # << >>
    /\ Call(Head(calls), OpsOf(Head(calls)))
    /\ calls' = Tail(calls)
    /\ pressed_keys' = IF Head(calls).name = "scan" THEN {} ELSE pressed_keys
    /\ UNCHANGED << pc, primask, handle, irq, kp, loc, servo, allocvars >>

\* the twelve checks of scan() on the value read under one column
ScanRows ==
    /\ Running
    /\ Head(todo).k = "rows"
    /\ pressed_keys' = pressed_keys \cup Detected(Head(todo).v, rd_buffer)
    /\ todo' = Tail(todo)
    /\ done' = Returned(Tail(todo))
    /\ UNCHANGED << gpio, iodir, rd_buffer, cur, fault, entry, latched, tm >>
    /\ UNCHANGED << elapsed, bus_ctx, isr_ret >>
    /\ UNCHANGED << pc, calls, primask, handle, irq, kp, loc, servo, allocvars >>

\* the program looks at the keys only in the reads of a scan: the keys move
\* while it scans or waits to scan again, before and after any transaction
\* of scan()
Scanning ==
    /\ ~Aborted
    /\ pc \in {"scan", "scan_result", "debounce", "debounce_result"}

\* the user presses a key: one at a time and MaxPresses times at most
KeyPress ==
    /\ Scanning
    /\ kp.down = {}
    /\ kp.presses < MaxPresses
    /\ \E k \in FwKeys : kp' = [down |-> {k}, presses |-> kp.presses + 1]
    /\ UNCHANGED << lcdvars, elapsed, bus_ctx, isr_ret >>
    /\ UNCHANGED << pc, calls, primask, handle, irq, pressed_keys, loc, servo, allocvars >>

KeyRelease ==
    /\ Scanning
    /\ kp.down # {}
    /\ kp' = [kp EXCEPT !.down = {}]
    /\ UNCHANGED << lcdvars, elapsed, bus_ctx, isr_ret >>
    /\ UNCHANGED << pc, calls, primask, handle, irq, pressed_keys, loc, servo, allocvars >>

\* TIMER1 reaches its compare value: the interrupt becomes pending
TimerFire ==
    /\ ~Aborted
    /\ irq.running /\ irq.enabled
    /\ elapsed
    /\ ~irq.pending
    /\ irq' = [irq EXCEPT !.pending = TRUE]
    /\ UNCHANGED << lcdvars, elapsed, bus_ctx, isr_ret >>
    /\ UNCHANGED << pc, calls, primask, handle, kp, pressed_keys, loc, servo, allocvars >>

\* where the main context is: the call in progress and what it has left
Preempted ==
    [call |-> IF todo = << >> THEN "none" ELSE cur.name, left |-> Len(todo)]

\* an interrupt handler that writes the GPIO register of the LCD chip
TIMER1_writes_gpio ==
    /\ ~Aborted
    /\ irq.pending /\ irq.unmasked /\ ~primask
    /\ irq' = [irq EXCEPT !.pending = FALSE]
    /\ elapsed' = FALSE
    /\ isr_ret' = Preempted
    /\ gpio' = [gpio EXCEPT ![I2C_ADDR_LCD] = MASK_RS]
    /\ bus_ctx' = "isr"
    /\ UNCHANGED << iodir, rd_buffer, todo, cur, done, fault, entry, latched,
                    tm >>
    /\ UNCHANGED << pc, calls, primask, handle, kp, pressed_keys, loc, servo, allocvars >>

\* #[interrupt] fn TIMER1(): borrow the handle, clear the event, restart
\* the timer; no bus transaction
TIMER1 ==
    /\ ~Aborted
    /\ irq.pending /\ irq.unmasked /\ ~primask
    /\ IF handle.borrowed \/ handle.t1 = "None"
       THEN /\ fault' = "panic"
            /\ UNCHANGED << irq, elapsed, isr_ret >>
       ELSE /\ irq' = [irq EXCEPT !.pending = FALSE]
            /\ elapsed' = FALSE
            /\ isr_ret' = Preempted
            /\ UNCHANGED fault
    /\ UNCHANGED << gpio, iodir, rd_buffer, todo, cur, done, entry, latched,
                    tm, bus_ctx >>
    /\ UNCHANGED << pc, calls, primask, handle, kp, pressed_keys, loc, servo, allocvars >>

InitFw == LcdInitState /\ FwStart(Head(main_init))

Main ==
    \/ InitTimer0 \/ InitTimer1 \/ StoreTimer1 \/ InitPeripheral
    \/ InitPowerOn \/ InitLcdEnter \/ InitLcdExit \/ InitKeypad \/ InitServo
    \/ IdleEnter \/ PromptParameter
    \/ ScanFirst \/ ScanNone \/ ScanDetected
    \/ Debounce \/ DebounceHeld \/ DebounceReleased
    \/ GupAccept \/ GupBackspace \/ GupDigit \/ Confirm \/ ConfirmKey
    \/ CuttingBegin \/ CutLoop \/ CutOn \/ CutOff \/ Finish
    \/ IdleExit \/ LoopDelay \/ LoopExit

Next ==
    \/ Main \/ NextCall
    \/ BusRead \/ BusWrite \/ Abort \/ Delay \/ ScanRows
    \/ KeyPress \/ KeyRelease \/ TimerFire \/ TIMER1

Spec == InitFw /\ [][Next]_vars

\* the steps of the processor: the main context executes its next statement
\* or makes its next call, a transaction, a delay or the row checks of the
\* call in progress come to an end, or the handler of TIMER1 runs
Program ==
    Main \/ NextCall \/ BusRead \/ BusWrite \/ Delay \/ ScanRows \/ TIMER1

\* Program can be taken, i.e. ENABLED <<Program>>_vars: the program has not
\* aborted, and the main context is not about to panic or the handler can
\* run
ProgramEnabled ==
    /\ ~Aborted
    /\ \/ todo = << >>
       \/ Head(todo).k # "panic"
       \/ irq.pending /\ irq.unmasked /\ ~primask

\* WF_vars(Program) with ENABLED written out: the processor does not stop.
\* The main context runs whenever the handler does not, and the handler
\* returns
ProcessorRuns == []<>(~ProgramEnabled) \/ []<><<Program>>_vars

\* the firmware from reset when no bus transaction fails
NextLive == Program \/ KeyPress \/ KeyRelease \/ TimerFire

\* the firmware with a bus that does not fail and a processor that does not
\* stop
SpecLive == InitFw /\ [][NextLive]_vars /\ ProcessorRuns

(***************************************************************************)
(* SpecLcdOp: one operation of the LCD driver, called on an initialised    *)
(* display whose expander register holds any combination of RS and D4..D7  *)
(***************************************************************************)
\* the operations and the arguments they are called with
LcdCalls ==
    { CallText("write_string", t) : t \in Texts }
    \cup { CallVal("write_char", c) : c \in {0, 10, 32, 65, 127, 165, 255} }
    \cup { CallVal("write_u32", v) : v \in U32Values }
    \cup { CallVal("backspace", n) : n \in 0..MaxCount }
    \cup { [CallOf("shift_cursor") EXCEPT !.dir = d, !.val = n] :
              d \in Direction, n \in 0..MaxCount }
    \cup { CallOf("clear_display"), CallOf("display_greeting"),
           CallOf("power_off") }

\* RS and D4..D7 in any combination, Enable and R/W low, power on
LineValues ==
    { MASK_PWR + rs * MASK_RS + d * MASK_D4 : rs \in 0..1, d \in 0..15 }

InitLcdOp ==
    /\ \E x \in LineValues :
        /\ gpio = [c \in Chips |-> IF c = I2C_ADDR_LCD THEN x ELSE 0]
        /\ entry = gpio
    /\ iodir = [c \in Chips |-> IF c = I2C_ADDR_LCD THEN 0 ELSE 255]
    /\ rd_buffer = 0
    /\ todo = << >>
    /\ cur = NoCall
    /\ done = {"power_on", "init"}
    /\ fault = "none"
    /\ latched = << >>
    /\ tm = TmInit
    /\ FwReset

LcdOperation ==
    /\ Idle /\ cur = NoCall
    /\ \E c \in LcdCalls : Call(c, OpsOf(c))
    /\ UNCHANGED fwvars

\* texts typed and the last n characters of a text
TypedTexts == { << 65 >>, << 65, 66 >>, << 49, NEWLINE, 50, 51, 52 >> }

LastN(t, n) == SubSeq(t, Len(t) - n + 1, Len(t))

\* a client that writes a text, erases its last n characters and writes
\* them again: write_string(t); backspace(n); write_string(last n of t)
LcdRetype ==
    /\ Idle /\ cur = NoCall
    /\ \E t \in TypedTexts, n \in 0..MaxCount :
        /\ n <= Len(t) /\ NEWLINE \notin { t[i] : i \in Len(t) - n + 1..Len(t) }
        /\ Call([CallText("retype", t) EXCEPT !.val = n],
                write_string(t) \o backspace(n) \o write_string(LastN(t, n)))
    /\ UNCHANGED fwvars

NextLcdOp == LcdOperation \/ LcdRetype \/ BusRead \/ BusWrite \/ Abort \/ Delay

SpecLcdOp == InitLcdOp /\ [][NextLcdOp]_vars

(***************************************************************************)
(* SpecDigits: the conversions of write_u32 and write_u8, as the calls of  *)
(* write_string each of them makes                                         *)
(***************************************************************************)
\* the largest value of five decimal digits
FiveDigitMax == 10^5 - 1

\* write_u32(v): the write_string calls made, up to the first ascii value
\* that is no char, and the panic of the unwrap or of a subtraction
WriteU32 ==
    /\ cur = NoCall
    /\ \E v \in (0..FiveDigitMax + 1)
                \cup {552479999, 552480000, 572959999, 572960000, 2147483647} :
        \E vals \in { write_u32_ascii_vals(v) } :
            LET none == { i \in 1..5 : char_from_u32_is_none(vals[i]) }
                made == IF write_u32_underflows(v) THEN 0
                        ELSE IF none = {} THEN 5
                        ELSE (CHOOSE i \in none : \A j \in none : i <= j) - 1
            IN /\ cur' = CallVal("write_u32", v)
               /\ calls' = [ i \in 1..made |->
                                CallText("write_string", << vals[i] >>) ]
               /\ fault' = IF made < 5 THEN "panic" ELSE "none"
    /\ UNCHANGED << gpio, iodir, rd_buffer, todo, done, entry, latched, tm >>
    /\ UNCHANGED << elapsed, bus_ctx, isr_ret >>
    /\ UNCHANGED << pc, primask, handle, irq, kp, pressed_keys, loc, servo, allocvars >>

\* write_u8() whose hundreds are the tens and hundreds together
write_u8_ascii_vals_div10(val) ==
    LET ones == val % 10
        tens == ((val - ones) % 100) \div 10
        hundreds == (val - tens - ones) \div 10
    IN << hundreds + ASCII_INT_OFFSET, tens + ASCII_INT_OFFSET,
          ones + ASCII_INT_OFFSET >>

\* the three zero-padded ASCII values of write_u8, most significant first
write_u8_ascii_vals(val) ==
    LET ones == val % 10
        tens == ((val - ones) % 100) \div 10
        hundreds == (val - tens - ones) \div 100
    IN << hundreds + ASCII_INT_OFFSET, tens + ASCII_INT_OFFSET,
          ones + ASCII_INT_OFFSET >>

\* write_u8(v): u8 arithmetic panics when a difference is negative or a sum
\* exceeds 255
WriteU8 ==
    /\ cur = NoCall
    /\ \E v \in 0..255 :
        LET ones == v % 10
            tens == ((v - ones) % 100) \div 10
            vals == write_u8_ascii_vals(v)
            wraps == \/ v - ones < 0
                     \/ v - tens - ones < 0
                     \/ \E i \in 1..3 : vals[i] > 255
        IN /\ cur' = CallVal("write_u8", v)
           /\ calls' = IF wraps THEN << >>
                       ELSE [ i \in 1..3 |->
                                CallText("write_string", << vals[i] >>) ]
           /\ fault' = IF wraps THEN "panic" ELSE "none"
    /\ UNCHANGED << gpio, iodir, rd_buffer, todo, done, entry, latched, tm >>
    /\ UNCHANGED << elapsed, bus_ctx, isr_ret >>
    /\ UNCHANGED << pc, primask, handle, irq, kp, pressed_keys, loc, servo, allocvars >>

NextDigits == WriteU32 \/ WriteU8

SpecDigits == InitLcd /\ [][NextDigits]_vars

(***************************************************************************)
(* SpecScan: the keypad client: init(), then scan() again and again, each  *)
(* with no key, one key or two keys held down while it runs                *)
(***************************************************************************)
KeypadInit ==
    /\ Idle /\ "keypad_init" \notin done
    /\ Call(CallOf("keypad_init"), keypad_init)
    /\ UNCHANGED fwvars

\* scan() that does not start from an empty PressedKeys
KeypadScan_keeps_keys ==
    /\ Idle /\ "keypad_init" \in done
    /\ \E held \in { h \in SUBSET { Keys[i] : i \in 1..Len(Keys) } :
                        Cardinality(h) <= 2 } :
          kp' = [down |-> held, presses |-> Cardinality(held)]
    /\ Call(CallOf("scan"), keypad_scan)
    /\ UNCHANGED << pc, calls, primask, handle, irq, pressed_keys, loc, servo, allocvars >>

KeypadScan ==
    /\ Idle /\ "keypad_init" \in done
    /\ \E held \in { h \in SUBSET { Keys[i] : i \in 1..Len(Keys) } :
                        Cardinality(h) <= 2 } :
          kp' = [down |-> held, presses |-> Cardinality(held)]
    /\ pressed_keys' = {}
    /\ Call(CallOf("scan"), keypad_scan)
    /\ UNCHANGED << pc, calls, primask, handle, irq, loc, servo, allocvars >>

NextScan ==
    KeypadInit \/ KeypadScan \/ BusRead \/ BusWrite \/ Abort \/ ScanRows

SpecScan == InitLcd /\ [][NextScan]_vars

(***************************************************************************)
(* SpecInput: the two calls of get_user_parameter in idle() and the screen *)
(* of final_confirmation, from the state init() and the greeting leave,    *)
(* with the keys the scan returns given one by one                         *)
(***************************************************************************)
\* idle() at its first call of get_user_parameter: within its critical
\* section, after init(), the greeting and its delay of 2.5 s, during which
\* TIMER1 (period 1 s) has fired: its interrupt is pending
InitInput ==
    /\ gpio = [c \in Chips |->
                 IF c = I2C_ADDR_LCD
                 THEN MASK_PWR + MASK_D7 + MASK_D6 + MASK_D5 + MASK_RS
                 ELSE 0]
    /\ iodir = [c \in Chips |-> IF c = I2C_ADDR_LCD THEN 0 ELSE MASK_ALL_ROWS]
    /\ rd_buffer = gpio[I2C_ADDR_LCD] + MASK_EN
    /\ todo = << >>
    /\ cur = CallVal("delay_ms", GREETING_DUR_IN_MS)
    /\ done = InitCalls
    /\ fault = "none"
    /\ entry = [c \in Chips |-> 0]
    /\ latched = << >>
    /\ tm = [TmInit EXCEPT !.setup_at_rise = T_AS_IN_US,
                           !.cycle_at_rise = T_CYCE_IN_US + T_AS_IN_US,
                           !.width_at_fall = PW_EH_IN_US,
                           !.recov_at_change = T_CYCE_IN_US - PW_EH_IN_US]
    /\ pc = "prompt_len"
    /\ calls = << >>
    /\ primask = TRUE
    /\ handle = [t1 |-> "Some", borrowed |-> FALSE]
    /\ irq = [running |-> TRUE, enabled |-> TRUE, unmasked |-> TRUE,
              pending |-> TRUE]
    /\ isr_ret = NoPreempt
    /\ elapsed = TRUE
    /\ bus_ctx = "none"
    /\ kp = [down |-> {}, presses |-> 0]
    /\ pressed_keys = {}
    /\ loc = LocInit
    /\ servo = 0
    /\ AllocReset

\* keypad::scan(timer, i2c) returns Some(k)
ScanReturns ==
    /\ At("scan")
    /\ \E k \in {"0", "7", "*", "#"} :
        /\ pc' = IF loc.caller = "gup" THEN "gup_key" ELSE "fc_key"
        /\ loc' = [loc EXCEPT !.key = k]
    /\ Make(<< >>)
    /\ UNCHANGED << primask, handle, irq, kp, pressed_keys, servo, allocvars >>

NextInput ==
    \/ PromptParameter \/ ScanReturns
    \/ GupAccept \/ GupBackspace \/ GupDigit \/ Confirm
    \/ NextCall \/ BusRead \/ BusWrite \/ Abort \/ Delay

SpecInput == InitInput /\ [][NextInput]_vars

(***************************************************************************)
(* SpecWorkflow: idle() from its first call of get_user_parameter to the   *)
(* idle loop: the input loop, final_confirmation, the cutting loop, the    *)
(* finish message and the loop that follows, with TIMER1 once interrupts   *)
(* are enabled again.  The keys the scan returns are given one by one: 9,  *)
(* '*' and '#', so that the parameters are 0, 9, 99, .. 99999.  The user   *)
(* confirms with '#' when the number of cuts is MaxCuts at most, and the   *)
(* cutting loop then makes all its passes.                                 *)
(***************************************************************************)
\* keypad::scan(timer, i2c) returns Some(k), k a key the user types
ScanReturnsTyped ==
    /\ At("scan")
    /\ \E k \in {"9", "*", "#"} :
        /\ (loc.caller = "fc" /\ k = "#") => loc.num_cuts <= MaxCuts
        /\ pc' = IF loc.caller = "gup" THEN "gup_key" ELSE "fc_key"
        /\ loc' = [loc EXCEPT !.key = k]
    /\ Make(<< >>)
    /\ UNCHANGED << primask, handle, irq, kp, pressed_keys, servo, allocvars >>

NextWorkflow ==
    \/ PromptParameter \/ ScanReturnsTyped
    \/ GupAccept \/ GupBackspace \/ GupDigit \/ Confirm \/ ConfirmKey
    \/ CuttingBegin \/ CutLoop \/ CutOn \/ CutOff \/ Finish
    \/ IdleExit \/ LoopDelay \/ LoopExit
    \/ NextCall \/ BusRead \/ BusWrite \/ Abort \/ Delay
    \/ TimerFire \/ TIMER1

SpecWorkflow == InitInput /\ [][NextWorkflow]_vars

(***************************************************************************)
(* SpecAlloc: the global allocator, microbit_allocator.rs.  The contexts   *)
(* call alloc() with any of the layouts below and their calls interleave   *)
(* in any way, one step being one access to ALLOCATOR.remaining or the     *)
(* code between two of them; regions returned are handed to dealloc(),     *)
(* which has no effect, at any time.  The rest of the firmware does not    *)
(* run.                                                                    *)
(***************************************************************************)
\* the layouts of the calls: Layout has size <= isize::MAX and align a
\* power of two; GlobalAlloc::alloc is not to be called with size 0
Sizes == {1, 6000, 20000}
Aligns == {1, MAX_SUPPORTED_ALIGN, 2 * MAX_SUPPORTED_ALIGN}

progvars ==
    << lcdvars, elapsed, bus_ctx, isr_ret,
       pc, calls, primask, handle, irq, kp, pressed_keys, loc, servo >>

InitAlloc == LcdInitState /\ FwReset

\* the calls of alloc() made so far
Started ==
    Len(returned)
    + Cardinality({c \in Contexts : alloc_call[c].at # "none"})

\* what a call with the locals l returns to its caller
Returns(l, ptr) ==
    Append(returned, [size |-> l.size, align |-> l.align, ptr |-> ptr])

\* alloc(layout) up to fetch_update: null_mut() if align > MAX_SUPPORTED_ALIGN
Alloc(c) ==
    /\ alloc_call[c].at = "none"
    /\ Started < MaxAllocs
    /\ \E size \in Sizes, align \in Aligns :
        LET l == [NoAlloc EXCEPT !.size = size, !.align = align] IN
        IF align > MAX_SUPPORTED_ALIGN
        THEN /\ returned' = Returns(l, Null)
             /\ UNCHANGED alloc_call
        ELSE /\ alloc_call' = [alloc_call EXCEPT ![c] = [l EXCEPT !.at = "load"]]
             /\ UNCHANGED returned
    /\ UNCHANGED << remaining, progvars >>

\* fetch_update: let mut prev = self.load(fetch_order)
Load(c) ==
    /\ alloc_call[c].at = "load"
    /\ alloc_call' = [alloc_call EXCEPT ![c].prev = remaining,
                                        ![c].at = "closure"]
    /\ UNCHANGED << remaining, returned, progvars >>

\* fetch_update: while let Some(next) = f(prev), and Err(prev) otherwise,
\* on which alloc() returns null_mut()
Closure(c) ==
    /\ alloc_call[c].at = "closure"
    /\ LET l == alloc_call[c]
           next == closure(l.prev, l.size, l.align)
       IN  IF next.some
           THEN /\ alloc_call' = [alloc_call EXCEPT ![c].allocated = next.v,
                                                    ![c].at = "cas"]
                /\ UNCHANGED returned
           ELSE /\ returned' = Returns(l, Null)
                /\ alloc_call' = [alloc_call EXCEPT ![c] = NoAlloc]
    /\ UNCHANGED << remaining, progvars >>

\* an exchange that stores next whatever remaining holds
CompareExchangeWeak_unconditional(c) ==
    /\ alloc_call[c].at = "cas"
    /\ LET l == alloc_call[c] IN
       /\ remaining' = l.allocated
       /\ returned' = Returns(l, l.allocated)
       /\ alloc_call' = [alloc_call EXCEPT ![c] = NoAlloc]
    /\ UNCHANGED progvars

\* fetch_update: compare_exchange_weak(prev, next, ..).  Ok: alloc() returns
\* arena + allocated.  Err(next_prev), which the weak exchange may also
\* give when remaining is prev: prev = next_prev and the loop goes on
CompareExchangeWeak(c) ==
    /\ alloc_call[c].at = "cas"
    /\ LET l == alloc_call[c] IN
       \/ /\ remaining = l.prev
          /\ remaining' = l.allocated
          /\ returned' = Returns(l, l.allocated)
          /\ alloc_call' = [alloc_call EXCEPT ![c] = NoAlloc]
       \/ /\ alloc_call' = [alloc_call EXCEPT ![c].prev = remaining,
                                               ![c].at = "closure"]
          /\ UNCHANGED << remaining, returned >>
    /\ UNCHANGED progvars

\* dealloc(ptr, layout) of a region alloc() returned: "Do nothing!"
Dealloc ==
    /\ \E i \in DOMAIN returned : returned[i].ptr # Null
    /\ UNCHANGED << allocvars, progvars >>

NextAlloc ==
    \/ \E c \in Contexts :
        Alloc(c) \/ Load(c) \/ Closure(c) \/ CompareExchangeWeak(c)
    \/ Dealloc

SpecAlloc == InitAlloc /\ [][NextAlloc]_vars

(***************************************************************************)
(* Properties                                                              *)
(***************************************************************************)
\* the last call has returned normally
ReturnedFrom(name) == cur.name = name /\ Idle

IsBus(op) == op.k \in {"read", "write", "write_or", "write_andnot"}

\* the running call has bus transactions to issue
BusWorkLeft == Running /\ \E i \in 1..Len(todo) : IsBus(todo[i])

\* C1: from the call of an LCD or keypad operation to its last bus
\* transaction no other context (the TIMER1 handler) issues a bus
\* transaction: the latest one since the call, if any, is of the main
\* context; and when the write-back of a read-modify-write is due, the
\* register still holds the value that was read (no lost update).
C1_BusExclusive ==
    /\ BusWorkLeft => bus_ctx \in {"none", "main"}
    /\ (Running /\ Head(todo).k \in {"write_or", "write_andnot"})
          => /\ bus_ctx = "main"
             /\ gpio[Head(todo).a] = rd_buffer

\* TIMER1() has run between the read and the write-back of the
\* read-modify-write of power_on, and the write-back is due
C1_Witness ==
    /\ isr_ret = [call |-> "power_on", left |-> 1]
    /\ Running
    /\ cur.name = "power_on"
    /\ Head(todo).k = "write_or"
    /\ ~irq.pending

\* C2: gpio_set_rmw(addr, mask) leaves the addressed GPIO register with
\* every mask bit set and every other bit as it was when the call was made;
\* gpio_unset_rmw(addr, mask) leaves it with every mask bit clear and every
\* other bit as it was; the register of the other chip is unchanged.
C2_RmwFrameEffect ==
    /\ ReturnedFrom("gpio_set_rmw") =>
        /\ \A k \in 0..7 :
            Bit(gpio[cur.addr], k) =
                IF Bit(cur.val, k) = 1 THEN 1 ELSE Bit(entry[cur.addr], k)
        /\ \A c \in Chips \ {cur.addr} : gpio[c] = entry[c]
    /\ ReturnedFrom("gpio_unset_rmw") =>
        /\ \A k \in 0..7 :
            Bit(gpio[cur.addr], k) =
                IF Bit(cur.val, k) = 1 THEN 0 ELSE Bit(entry[cur.addr], k)
        /\ \A c \in Chips \ {cur.addr} : gpio[c] = entry[c]

\* a set that changed some bits and kept others, on the LCD chip, with the
\* keypad chip holding another value
C2_Witness ==
    /\ ReturnedFrom("gpio_set_rmw")
    /\ cur.addr = I2C_ADDR_LCD /\ cur.val = 85
    /\ entry[I2C_ADDR_LCD] = 33 /\ gpio[I2C_ADDR_LCD] = 117
    /\ gpio[I2C_ADDR_KEYPAD] = 90

\* the nibbles of the initialisation sequence, Register-Select low
InitNibbles ==
    << [rs |-> 0, d |-> 2], [rs |-> 0, d |-> 2], [rs |-> 0, d |-> 8],
       [rs |-> 0, d |-> 0], [rs |-> 0, d |-> 14],
       [rs |-> 0, d |-> 0], [rs |-> 0, d |-> 6] >>

IsPrefix(p, q) ==
    /\ Len(p) <= Len(q)
    /\ \A i \in 1..Len(p) : p[i] = q[i]

\* C3: LCD init latches the nibbles 2, 2, 8, 0, E, 0, 6 in this order, all
\* with Register-Select low and nothing else between them, seven in all when
\* it returns, and the pins of the LCD expander are outputs before the first
\* of them is latched.
C3_InitSequence ==
    cur.name = "init" =>
        /\ IsPrefix(latched, InitNibbles)
        /\ latched # << >> => iodir[I2C_ADDR_LCD] = 0
        /\ Idle => latched = InitNibbles

C3_Witness == ReturnedFrom("init") /\ Len(latched) = 7 /\ "init" \in done

\* the two nibbles of a character, of a cursor shift and of a newline, as
\* the controller is meant to see them
CharNibbles(c) ==
    << [rs |-> 1, d |-> (c \div 16) % 16], [rs |-> 1, d |-> c % 16] >>

ShiftNibbles(dir) ==
    << [rs |-> 0, d |-> 1], [rs |-> 0, d |-> IF dir = Right THEN 4 ELSE 0] >>

NewlineNibbles == << [rs |-> 0, d |-> 12], [rs |-> 0, d |-> 0] >>

RECURSIVE TextNibbles(_)
TextNibbles(text) ==
    IF text = << >> THEN << >>
    ELSE (IF Head(text) = NEWLINE THEN NewlineNibbles
          ELSE CharNibbles(Head(text)))
         \o TextNibbles(Tail(text))

\* the digits of v in decimal, n of them, most significant first
RECURSIVE Decimal(_, _)
Decimal(v, n) ==
    IF n = 0 THEN << >>
    ELSE Decimal(v \div 10, n - 1) \o << ASCII_INT_OFFSET + (v % 10) >>

\* the nibbles an operation is meant to latch, in order
Intended(c) ==
    CASE c.name = "init" -> InitNibbles
      [] c.name = "clear_display" ->
            << [rs |-> 0, d |-> 0], [rs |-> 0, d |-> 1] >>
      [] c.name = "write_string" -> TextNibbles(c.text)
      [] c.name = "display_greeting" -> TextNibbles(GreetingText)
      [] c.name = "write_char" -> CharNibbles(c.val)
      [] c.name = "write_u32" -> TextNibbles(Decimal(c.val, 5))
      [] c.name = "shift_cursor" -> Repeat(ShiftNibbles(c.dir), c.val)
      [] c.name = "backspace" ->
            Repeat(ShiftNibbles(Left) \o CharNibbles(32) \o ShiftNibbles(Left),
                   c.val)
      [] c.name = "retype" ->
            TextNibbles(c.text)
            \o Repeat(ShiftNibbles(Left) \o CharNibbles(32)
                      \o ShiftNibbles(Left), c.val)
            \o TextNibbles(LastN(c.text, c.val))
      [] OTHER -> << >>

\* C11: whatever RS and D4..D7 hold when an LCD operation is called, the
\* nibbles latched at its Enable rising edges are exactly the intended
\* ones, in order: no line left high by what ran before is latched.
C11_LinesAsIntended ==
    cur # NoCall =>
        /\ IsPrefix(latched, Intended(cur))
        /\ Idle => latched = Intended(cur)

\* clear_display, called with RS and D4..D7 all high, has returned
C11_Witness ==
    /\ entry[I2C_ADDR_LCD] = MASK_PWR + MASK_LINES
    /\ ReturnedFrom("clear_display")
    /\ latched = << [rs |-> 0, d |-> 0], [rs |-> 0, d |-> 1] >>

\* the operations that write to the display or move its cursor
DisplayOps ==
    { "write_string", "write_u32", "backspace", "clear_display",
      "shift_cursor", "display_greeting", "write_char" }

LcdReady == {"power_on", "init"} \subseteq done

\* C4: in the firmware a display operation is called only when power_on
\* and init have returned, and outside init no nibble is latched before
\* that.
C4_ReadyBeforeDisplayOps ==
    /\ cur.name \in DisplayOps => LcdReady
    /\ \A i \in 1..Len(calls) : calls[i].name \in DisplayOps => LcdReady
    /\ (latched # << >> /\ cur.name # "init") => LcdReady

\* the first character of the greeting is latched, after init
C4_Witness ==
    /\ pc = "prompt_len"
    /\ cur.name = "display_greeting"
    /\ latched = << [rs |-> 1, d |-> 4], [rs |-> 1, d |-> 8] >>
    /\ LcdReady

\* C5: at the first Enable pulse of init the power bit is set, power_on has
\* returned, and at least T_RCC_IN_MS of delay have passed since the power
\* bit was set.
C5_PowerSettle ==
    (cur.name = "init" /\ Len(latched) = 1)
        => /\ "power_on" \in done
           /\ Bit(gpio[I2C_ADDR_LCD], 7) = 1
           /\ tm.pwr_at_rise >= T_RCC_IN_MS * 1000

\* the first pulse of init in the firmware, inside its critical section
C5_Witness ==
    /\ pc = "lcd_init_exit"
    /\ primask
    /\ cur.name = "init"
    /\ Len(latched) = 1
    /\ tm.pwr_at_rise >= T_RCC_IN_MS * 1000

\* C6: at every Enable rising edge at least 40 us have passed since
\* Register-Select or a data line last changed, and at every Enable falling
\* edge Enable has been high for at least 230 us.
C6_SetupAndWidth ==
    /\ tm.setup_at_rise >= 40
    /\ tm.width_at_fall >= 230

\* a pulse of the second character of a text has completed
C6_Witness ==
    /\ cur.name = "write_string" /\ Len(latched) = 4
    /\ Bit(gpio[I2C_ADDR_LCD], 2) = 0
    /\ tm.setup_at_rise = 40 /\ tm.width_at_fall = 230

\* C7: at every Enable rising edge at least 500 us have passed since the
\* rising edge before it, and whenever Register-Select or a data line changes
\* at least 270 us have passed since Enable was last lowered.
C7_CycleAndRecovery ==
    /\ tm.cycle_at_rise >= 500
    /\ tm.recov_at_change >= 270

\* the first pulse of an operation follows the last pulse of the one before
C7_Witness ==
    /\ cur.name = "clear_display" /\ Len(latched) = 1
    /\ tm.cycle_at_rise = 540 /\ tm.recov_at_change = 270

\* a text of at most one newline whose lines have at most 16 characters
RECURSIVE CountNewlines(_)
CountNewlines(s) ==
    IF s = << >> THEN 0
    ELSE (IF Head(s) = NEWLINE THEN 1 ELSE 0) + CountNewlines(Tail(s))

FitsDisplay(text) ==
    /\ CountNewlines(text) <= 1
    /\ \A i \in 1..Len(text) :
        \A j \in i..Len(text) :
            (\A k \in i..j : text[k] # NEWLINE) => j - i + 1 <= 16

\* two nibbles per character, in text order, high nibble first; a newline is
\* the command C0
NibblesOfText(text) ==
    /\ Len(latched) = 2 * Len(text)
    /\ \A i \in 1..Len(text) :
        IF text[i] = NEWLINE
        THEN /\ latched[2 * i - 1] = [rs |-> 0, d |-> 12]
             /\ latched[2 * i] = [rs |-> 0, d |-> 0]
        ELSE /\ latched[2 * i - 1].d = (text[i] \div 16) % 16
             /\ latched[2 * i].d = text[i] % 16

\* C8: for every text with at most one newline and lines of at most 16
\* characters, write_string returns after exactly two Enable pulses per
\* character of the text (newline included), in text order, the high nibble
\* of each character latched before its low nibble.
C8_TwoPulsesPerCharacter ==
    ( /\ cur.name = "write_string"
      /\ todo = << >>
      /\ fault # "bus"
      /\ FitsDisplay(cur.text) )
    => fault = "none" /\ NibblesOfText(cur.text)

\* what write_string does guarantee: the same, for the texts whose lines
\* have at most 16 bytes in UTF-8 (line.len() is a count of bytes)
C8_LinesOfSixteenBytes ==
    ( /\ cur.name = "write_string"
      /\ todo = << >>
      /\ fault # "bus"
      /\ FitsDisplay(cur.text)
      /\ \A i \in 1..Len(split_newline(cur.text)) :
            str_len(split_newline(cur.text)[i]) <= 16 )
    => fault = "none" /\ NibblesOfText(cur.text)

\* C12: write_string aborts (panics, writes nothing, never returns) if and
\* only if the text has more than one newline or a line of more than 16
\* characters.
C12_AbortsIffTooLong ==
    cur.name = "write_string" =>
        /\ fault = "panic" => ~FitsDisplay(cur.text)
        /\ ~FitsDisplay(cur.text) => latched = << >> /\ ~Idle

\* what write_string does guarantee: it aborts if and only if the text has
\* more than one newline or a line of more than 16 bytes in UTF-8, and a
\* text it accepts is written whole
FitsInBytes(text) ==
    /\ CountNewlines(text) <= 1
    /\ \A i \in 1..Len(split_newline(text)) :
          str_len(split_newline(text)[i]) <= 16

C12_AbortsIffTooManyBytes ==
    cur.name = "write_string" =>
        /\ fault = "panic" => ~FitsInBytes(cur.text)
        /\ ~FitsInBytes(cur.text) => latched = << >> /\ ~Idle
        /\ Idle => latched = TextNibbles(cur.text)

(***************************************************************************)
(* The display as the controller keeps it: the address counter (cursor)    *)
(* and the cells written, driven by the nibbles latched.  Two lines of 40  *)
(* cells at addresses 0..39 and 64..103, entry mode auto-increment.        *)
(***************************************************************************)
DdramAddrs == (0..39) \cup (64..103)

\* the address the instruction C0 (set address, 80 + 40 in hexadecimal) sets
Line2Start == 192 - 128

\* a cell nothing has been written to
Untouched == 0 - 1

Inc(a) == IF a = 39 THEN 64 ELSE IF a = 103 THEN 0 ELSE a + 1

Dec(a) == IF a = 64 THEN 39 ELSE IF a = 0 THEN 103 ELSE a - 1

DisplayAt(a) == [ac |-> a, cells |-> [x \in DdramAddrs |-> Untouched]]

\* one byte taken by the controller: data (rs = 1) or instruction (rs = 0)
Exec(d, rs, byte) ==
    IF rs = 1
    THEN [ac |-> Inc(d.ac), cells |-> [d.cells EXCEPT ![d.ac] = byte]]
    ELSE IF byte >= 128 /\ (byte - 128) \in DdramAddrs
         THEN [d EXCEPT !.ac = byte - 128]
    ELSE IF byte = 1
         THEN [ac |-> 0, cells |-> [x \in DdramAddrs |-> 32]]
    ELSE IF byte = 16 THEN [d EXCEPT !.ac = Dec(d.ac)]
    ELSE IF byte = 20 THEN [d EXCEPT !.ac = Inc(d.ac)]
    ELSE d

\* the display after the nibbles ns, taken in pairs, high nibble first
RECURSIVE Show(_, _)
Show(d, ns) ==
    IF Len(ns) < 2 THEN d
    ELSE Show(Exec(d, ns[1].rs, ns[1].d * 16 + ns[2].d), Tail(Tail(ns)))

\* C13: a newline of write_string latches C then 0 with Register-Select
\* low, which puts the cursor at the start of line 2 wherever it was before
\* the call, on line 1 or on line 2.
C13_NewlineToLineTwo ==
    cur.name = "write_string" =>
        \A i \in 1..Len(cur.text) :
            (cur.text[i] = NEWLINE /\ 2 * i <= Len(latched)) =>
                /\ SubSeq(latched, 2 * i - 1, 2 * i) = NewlineNibbles
                /\ \A a \in DdramAddrs :
                      Show(DisplayAt(a), SubSeq(latched, 1, 2 * i)).ac
                          = Line2Start

\* "A\nB" written with the cursor on line 2: B is the first cell of line 2
C13_Witness ==
    /\ ReturnedFrom("write_string")
    /\ cur.text = << 65, NEWLINE, 66 >>
    /\ Show(DisplayAt(70), latched).ac = Line2Start + 1
    /\ Show(DisplayAt(70), latched).cells[Line2Start] = 66
    /\ Show(DisplayAt(70), latched).cells[70] = 65

\* the display d with the j cells left of the cursor blanked and the cursor
\* on the leftmost of them
RECURSIVE Erased(_, _)
Erased(d, j) ==
    IF j = 0 THEN d
    ELSE Erased([ac |-> Dec(d.ac),
                 cells |-> [d.cells EXCEPT ![Dec(d.ac)] = 32]], j - 1)

\* cursor positions a call starts at: first, inner and last visible cells of
\* both lines, and the last cell of line 1
CursorStarts == {0, 3, 15, 39, 64, 66, 79}

\* the cells between the cursor and the start of its line
CellsLeftOf(a) == IF a >= Line2Start THEN a - Line2Start ELSE a

\* C14: backspace(1) blanks the cell left of the cursor and leaves the cursor
\* on it, backspace(n) does so n times, and write_string(t); backspace(n);
\* write_string(last n characters of t) ends with the display and the cursor
\* of write_string(t) alone.
C14_BackspaceErases ==
    /\ (cur.name = "backspace" /\ Idle) =>
          \A a \in CursorStarts :
              CellsLeftOf(a) >= cur.val =>
                  Show(DisplayAt(a), latched) = Erased(DisplayAt(a), cur.val)
    /\ cur.name = "retype" =>
          \A a \in CursorStarts :
              LET k == 2 * Len(cur.text)
                  written == Show(DisplayAt(a), SubSeq(latched, 1, k))
              IN /\ \A j \in 0..cur.val :
                        Len(latched) = k + 6 * j =>
                            Show(DisplayAt(a), latched) = Erased(written, j)
                 /\ Idle => Show(DisplayAt(a), latched) = written

\* "AB" written at cell 3, B erased and written again: A and B are in cells
\* 3 and 4 and the cursor is on cell 5
C14_Witness ==
    /\ ReturnedFrom("retype")
    /\ cur.text = << 65, 66 >> /\ cur.val = 1
    /\ Len(latched) = 12
    /\ Show(DisplayAt(3), SubSeq(latched, 1, 10)).cells[4] = 32
    /\ Show(DisplayAt(3), SubSeq(latched, 1, 10)).ac = 4
    /\ Show(DisplayAt(3), latched).cells[3] = 65
    /\ Show(DisplayAt(3), latched).cells[4] = 66
    /\ Show(DisplayAt(3), latched).ac = 5

\* C15: shift_cursor(dir, count) latches count cursor-shift instructions,
\* nibble 1 and then nibble 0 (Left) or 4 (Right), all with Register-Select
\* low, and nothing else; with count 0 it touches neither the bus nor the
\* register.
C15_ShiftCursor ==
    cur.name = "shift_cursor" =>
        /\ Len(latched) <= 2 * cur.val
        /\ \A k \in 1..Len(latched) :
              /\ latched[k].rs = 0
              /\ latched[k].d = IF k % 2 = 1 THEN 1
                                ELSE IF cur.dir = Right THEN 4 ELSE 0
        /\ Idle => Len(latched) = 2 * cur.val
        /\ cur.val = 0 => todo = << >> /\ fault = "none" /\ gpio = entry

\* shift_cursor(Right, 2) has returned
C15_Witness ==
    /\ ReturnedFrom("shift_cursor")
    /\ cur.dir = Right /\ cur.val = 2
    /\ latched = << [rs |-> 0, d |-> 1], [rs |-> 0, d |-> 4],
                    [rs |-> 0, d |-> 1], [rs |-> 0, d |-> 4] >>

\* the calls of write_string that write the n decimal digits of v, one
\* character each, most significant first
DigitWrites(v, n) ==
    [ i \in 1..n |-> CallText("write_string", << Decimal(v, n)[i] >>) ]

\* C16: for v in 0..99999 write_u32(v) makes five calls of write_string, each
\* of one character, which are the decimal digits of v padded with zeros,
\* most significant first.
C16_FiveDecimalDigits ==
    (cur.name = "write_u32" /\ cur.val <= FiveDigitMax) =>
        fault = "none" /\ calls = DigitWrites(cur.val, 5)

\* write_u32(42) writes "0", "0", "0", "4", "2"
C16_Witness ==
    /\ cur = CallVal("write_u32", 42)
    /\ fault = "none"
    /\ calls = [ i \in 1..5 |->
                   CallText("write_string", << << 48, 48, 48, 52, 50 >>[i] >>) ]

\* C17: for every u32 value write_u32 completes and writes five characters
\* that are decimal digits, and no subtraction of the conversion underflows.
C17_DigitsForEveryU32 ==
    cur.name = "write_u32" =>
        /\ fault = "none"
        /\ ~write_u32_underflows(cur.val)
        /\ Len(calls) = 5
        /\ \A i \in 1..Len(calls) :
              calls[i].text[1] \in ASCII_INT_OFFSET..ASCII_INT_OFFSET + 9

\* what write_u32 does guarantee over the values checked: no subtraction
\* underflows, and it panics only on an ascii value that is no char
C17_NoUnderflow ==
    cur.name = "write_u32" =>
        /\ ~write_u32_underflows(cur.val)
        /\ fault = "panic" =>
              char_from_u32_is_none(write_u32_ascii_vals(cur.val)[1])

\* C18: for every u8 value write_u8 makes three calls of write_string, each
\* of one character, which are the decimal digits of the value padded with
\* zeros, and no step of the conversion leaves the range of u8.
C18_ThreeDecimalDigits ==
    cur.name = "write_u8" =>
        fault = "none" /\ calls = DigitWrites(cur.val, 3)

\* write_u8(255) writes "2", "5", "5"
C18_Witness ==
    /\ cur = CallVal("write_u8", 255)
    /\ fault = "none"
    /\ calls = [ i \in 1..3 |->
                   CallText("write_string", << << 50, 53, 53 >>[i] >>) ]

\* C19: a bus transaction that fails ends the program there: it has no
\* effect on the registers, what the operation had left to do (the write-back
\* of a read-modify-write whose read failed included) is dropped, and from
\* then on no transaction is issued, no call is made or returns and the
\* program moves no further.
C19_BusFailureIsFatal ==
    /\ [](fault = "bus" => todo = << >> /\ ~Idle)
    /\ [][ /\ (fault = "none" /\ fault' = "bus") =>
                /\ Running /\ IsBus(Head(todo))
                /\ UNCHANGED << gpio, iodir, rd_buffer, latched, done, cur,
                                calls, pc >>
           /\ fault = "bus" =>
                UNCHANGED << gpio, iodir, rd_buffer, todo, cur, done, fault,
                             latched, tm, calls, pc, pressed_keys, servo >>
         ]_vars

\* a transaction of display_greeting failed before its first Enable pulse,
\* with the delay that follows it in idle() still to be called
C19_Witness ==
    /\ fault = "bus"
    /\ cur.name = "display_greeting"
    /\ latched = << >>
    /\ todo = << >>
    /\ calls = << CallVal("delay_ms", GREETING_DUR_IN_MS) >>

\* the legend of the keypad: the keys of columns C1, C2, C3, each for rows
\* R1..R4
KeyTable ==
    << << "1", "4", "7", "*" >>,
       << "2", "5", "8", "0" >>,
       << "3", "6", "9", "#" >> >>

ColumnMask(c) == << MASK_C1, MASK_C2, MASK_C3 >>[c]

RowMask(r) == << MASK_R1, MASK_R2, MASK_R3, MASK_R4 >>[r]

\* the keys whose switch joins the pins of column c and row r
SwitchAt(c, r) ==
    { ScanChecks[i].key : i \in { j \in 1..Len(ScanChecks) :
        /\ ScanChecks[j].col = ColumnMask(c)
        /\ ScanChecks[j].row = RowMask(r) } }

\* C20: for each column c and row r, a scan made while the switch at (c, r)
\* alone is closed reports the key the legend gives for (c, r) and no other
\* key; until the scan returns it has reported nothing else.
C20_ScanReportsTheKey ==
    cur.name = "scan" =>
        \A c \in 1..3, r \in 1..4 :
            (kp.down # {} /\ kp.down = SwitchAt(c, r)) =>
                /\ pressed_keys \subseteq { KeyTable[c][r] }
                /\ Idle => pressed_keys = { KeyTable[c][r] }

\* a scan with the switch at column C2 and row R4 closed has returned "0"
C20_Witness ==
    /\ ReturnedFrom("scan")
    /\ kp.down = SwitchAt(2, 4)
    /\ pressed_keys = {"0"}
    /\ rd_buffer = MASK_C3

\* the step that makes the four checks of scan() on the value just read
RowsChecked ==
    /\ cur.name = "scan" /\ Running
    /\ Head(todo).k = "rows"
    /\ todo' = Tail(todo)

\* C21: scan reports no key (None) if and only if no row bit is set in any
\* of its three reads: a read without a row bit adds no key, whatever its
\* other bits are, a read with a row bit adds one, and keys are never taken
\* back; a scan that reports none has returned normally.
C21_NoneIffNoRowBit ==
    /\ []((ReturnedFrom("scan") /\ pressed_keys = {}) => fault = "none")
    /\ [][ RowsChecked =>
             /\ pressed_keys \subseteq pressed_keys'
             /\ And8(rd_buffer, MASK_ALL_ROWS) = 0
                   => pressed_keys' = pressed_keys
             /\ And8(rd_buffer, MASK_ALL_ROWS) > 0 => pressed_keys' # {}
         ]_vars

\* a scan with no key held has returned None; its last read shows the
\* column line that was driven, which is no row bit
C21_Witness ==
    /\ ReturnedFrom("scan")
    /\ kp.down = {}
    /\ pressed_keys = {}
    /\ rd_buffer = MASK_C3

\* the column lines of the keypad chip
ColumnLines == MASK_C1 + MASK_C2 + MASK_C3

\* C22: a scan is three sweeps, of C1, C2 and C3 in this order; each is one
\* write of the register, one read of it and the checks of the rows, and at
\* the read the column of the sweep is the only column line driven high.
C22_SweepOrder ==
    (cur.name = "scan" /\ ~Aborted) =>
        /\ Len(todo) <= 9
        /\ \A i \in 1..Len(todo) :
              todo[i].k = << "write", "read", "rows" >>
                              [((9 - Len(todo) + i - 1) % 3) + 1]
        /\ \A i \in 1..Len(todo) :
              todo[i].k = "write" =>
                  todo[i].v = ColumnMask(((9 - Len(todo) + i - 1) \div 3) + 1)
        /\ (todo # << >> /\ Head(todo).k \in {"read", "rows"}) =>
              /\ And8(gpio[I2C_ADDR_KEYPAD], ColumnLines)
                    = ColumnMask(((9 - Len(todo)) \div 3) + 1)
              /\ And8(iodir[I2C_ADDR_KEYPAD], ColumnLines) = 0

\* the read of the third sweep is due: C3 is driven, C1 and C2 are not
C22_Witness ==
    /\ cur.name = "scan" /\ Running
    /\ Len(todo) = 2 /\ Head(todo).k = "read"
    /\ gpio[I2C_ADDR_KEYPAD] = MASK_C3
    /\ pressed_keys = {"5"}

\* the keys whose row bit is set in the value read, under the column driven
ReadHigh ==
    { ScanChecks[i].key : i \in { j \in 1..Len(ScanChecks) :
        /\ And8(gpio[I2C_ADDR_KEYPAD], ScanChecks[j].col) > 0
        /\ And8(rd_buffer, ScanChecks[j].row) > 0 } }

\* C23: the set of keys a scan reports starts empty at the call, whatever an
\* earlier scan detected, and grows at each sweep by exactly the keys whose
\* row bit was read high under the column driven; with two keys held, both
\* are reported and no other.
C23_UnionOfSweeps ==
    /\ []((cur.name = "scan" /\ Len(todo) = 9) => pressed_keys = {})
    /\ [](ReturnedFrom("scan") => pressed_keys = kp.down)
    /\ [][ RowsChecked => pressed_keys' = pressed_keys \cup ReadHigh ]_vars

\* a scan with 1 and 9 held has returned both, after an earlier scan
\* returned other keys
C23_Witness ==
    /\ ReturnedFrom("scan")
    /\ kp.down = {"1", "9"}
    /\ pressed_keys = {"1", "9"}

\* the program is in the debounce loop of the single-key scan
InDebounce == pc \in {"debounce", "debounce_result"}

\* the single-key scan has returned Some(key) to its caller
KeyEvent == pc \in {"gup_key", "fc_key"}

\* C24: the single-key scan returns Some(key) only from a re-scan that found
\* no key pressed, the key is the one its first scan detected, whatever was
\* pressed during the wait, and when the first scan finds no key it returns
\* None at once, with no delay and no re-scan; so the digits recorded never
\* outnumber the presses made.
C24_DebouncedScan ==
    /\ [](KeyEvent => loc.key \in FwKeys)
    /\ [](loc.user_input_idx <= kp.presses)
    /\ [][ /\ (KeyEvent' /\ ~KeyEvent) =>
                /\ pc = "debounce_result" /\ cur.name = "scan"
                /\ pressed_keys = {}
                /\ loc'.key = loc.key
           /\ (pc = "scan_result" /\ pc' # pc) =>
                /\ calls' = << >>
                /\ IF pressed_keys = {}
                   THEN pc' = "scan" /\ loc' = loc
                   ELSE pc' = "debounce" /\ loc'.key \in pressed_keys
           /\ InDebounce => loc'.key = loc.key
         ]_vars

\* 1 was pressed and released, another key was pressed and released during
\* the wait, and the scan has returned 1
C24_Witness ==
    /\ pc = "gup_key" /\ Idle
    /\ loc.key = "1"
    /\ kp.presses = 2
    /\ loc.user_input_idx = 0

\* the keys held down in the column that is driven
HeldUnderColumn ==
    { ScanChecks[i].key : i \in { j \in 1..Len(ScanChecks) :
        /\ ScanChecks[j].key \in kp.down
        /\ And8(gpio[I2C_ADDR_KEYPAD], ScanChecks[j].col) > 0 } }

\* the read of the rows in a re-scan of the debounce loop
RescanReads ==
    /\ InDebounce /\ cur.name = "scan" /\ Running
    /\ Head(todo).k = "read"
    /\ todo' = Tail(todo)

\* C25: the only way out of the debounce loop of the single-key scan is a
\* re-scan that read no row bit high and so detected no key: there is no
\* timeout and no other path.  A key held at the read of its column has its
\* row bit read high, a row bit read high is a key detected, and a key
\* detected stays detected until the next scan is called; so with a row bit
\* high in every re-scan the scan never returns.
C25_HeldKeyNeverReturns ==
    /\ [][ (InDebounce /\ ~InDebounce')
             => /\ At("debounce_result") /\ cur.name = "scan"
                /\ pressed_keys = {}
                /\ KeyEvent' ]_vars
    /\ [][ RescanReads => HeldUnderColumn \subseteq ReadHigh' ]_vars
    /\ [][ (InDebounce /\ RowsChecked)
             => ReadHigh \subseteq pressed_keys' ]_vars
    /\ [][ (InDebounce /\ pressed_keys # {})
             => \/ pressed_keys' # {}
                \/ cur'.name = "scan" /\ cur.name # "scan" ]_vars

\* a re-scan has found # still held, after an earlier re-scan
C25_Witness ==
    /\ pc = "debounce_result" /\ Idle /\ calls = << >>
    /\ cur.name = "scan"
    /\ kp.down = {"#"} /\ pressed_keys = {"#"}
    /\ tm.since_pwr = TimeCap

\* a scan is in progress or queued
ScanCalled ==
    \/ cur.name = "scan"
    \/ \E i \in 1..Len(calls) : calls[i].name = "scan"

\* the transaction due is a write of the keypad chip's direction register
WritesKeypadIodir ==
    /\ Running
    /\ Head(todo).k = "write"
    /\ Head(todo).a = I2C_ADDR_KEYPAD /\ Head(todo).r = IODIR

\* C26: the direction register of the keypad chip is written once, by
\* keypad::init, with the four row pins as inputs and the three column pins
\* as outputs, and in the firmware no scan is called before that write.
C26_KeypadInitOnceBeforeScan ==
    /\ [](ScanCalled => "keypad_init" \in done)
    /\ []("keypad_init" \in done =>
            /\ iodir[I2C_ADDR_KEYPAD] = MASK_ALL_ROWS
            /\ And8(iodir[I2C_ADDR_KEYPAD], ColumnLines) = 0)
    /\ [](WritesKeypadIodir =>
            /\ cur.name = "keypad_init" /\ "keypad_init" \notin done
            /\ todo = << MicroOp("write", I2C_ADDR_KEYPAD, IODIR,
                                  MASK_ALL_ROWS) >>)
    /\ [][ (cur'.name = "keypad_init" /\ Len(todo') > Len(todo))
              => "keypad_init" \notin done ]_vars

\* the first scan of the firmware has been called
C26_Witness ==
    /\ cur.name = "scan" /\ Len(todo) = 9
    /\ kp.presses = 0
    /\ "keypad_init" \in done
    /\ iodir[I2C_ADDR_KEYPAD] = MASK_ALL_ROWS

\* the Enable line and the lines the controller samples
EnableHigh == Bit(gpio[I2C_ADDR_LCD], 2) = 1

Lines(reg) == And8(reg, MASK_LINES)

\* C27: Enable is low whenever an operation of the LCD is called or returns,
\* so it is high only between the two writes of pulse_enable, and while it
\* is high neither Register-Select nor a data line changes.
C27_EnableOnlyInPulse ==
    /\ [](Idle => ~EnableHigh)
    /\ [](EnableHigh =>
            /\ cur # NoCall
            /\ Aborted \/ /\ todo # << >>
                          /\ Head(todo).k \in {"delay", "read", "write_andnot"}
                          /\ Head(todo).k = "write_andnot"
                                => Head(todo).v = MASK_EN
            /\ Aborted \/ Len(latched) > 0)
    /\ [][ EnableHigh =>
              Lines(gpio'[I2C_ADDR_LCD]) = Lines(gpio[I2C_ADDR_LCD]) ]_vars

\* Enable is high in the second pulse of write_char, with the low nibble
\* of the character on the data lines
C27_Witness ==
    /\ cur = CallVal("write_char", 165) /\ Running
    /\ EnableHigh
    /\ Len(latched) = 2
    /\ Lines(gpio[I2C_ADDR_LCD]) = MASK_RS + MASK_D4 + MASK_D6

\* C28: once power_on has returned, the power bit (bit 7 of the register of
\* the LCD chip) is set and stays set through init, write_string, write_u32,
\* backspace, clear_display, shift_cursor and every reset of the pins: only
\* a write of power_off clears it.
C28_PowerBitKept ==
    /\ []("power_on" \in done => Bit(gpio[I2C_ADDR_LCD], 7) = 1)
    /\ [][ (Bit(gpio[I2C_ADDR_LCD], 7) = 1 /\ cur.name # "power_off")
              => Bit(gpio'[I2C_ADDR_LCD], 7) = 1 ]_vars

\* backspace has returned after its last reset of the pins: the power bit is
\* the only bit set
C28_Witness ==
    /\ ReturnedFrom("backspace") /\ Len(latched) = 6
    /\ gpio[I2C_ADDR_LCD] = MASK_PWR

\* C29: a call of write_string that aborts on a line too long or on too
\* many newlines has made no bus transaction: nothing was read, the register
\* is as it was at the call and nothing was latched, so the display and its
\* cursor are untouched.
C29_AbortBeforeAnyWrite ==
    (cur.name = "write_string" /\ (fault = "panic" \/ ~FitsInBytes(cur.text)))
    => /\ latched = << >>
       /\ gpio = entry
       /\ rd_buffer = 0
       /\ tm = TmInit
       /\ bus_ctx = "none"
       /\ fault \in {"none", "panic"}
       /\ \A a \in CursorStarts : Show(DisplayAt(a), latched) = DisplayAt(a)

\* write_string has aborted on a line of 17 characters that follows a good
\* line
C29_Witness ==
    /\ cur.name = "write_string"
    /\ fault = "panic"
    /\ Len(cur.text) = 34 /\ cur.text[17] = NEWLINE
    /\ gpio[I2C_ADDR_LCD] = MASK_PWR + MASK_LINES

\* C30: in get_user_parameter the count of recorded digits is between 0 and
\* 5, the slots below the count hold digits and all the others are empty,
\* and a digit key that arrives when 5 digits are recorded changes neither
\* the buffer nor the count and writes nothing to the LCD.
C30_InputBounded ==
    /\ [](/\ loc.user_input_idx \in 0..MAX_INPUT_CHARS
          /\ \A i \in 1..USER_INPUT_LEN :
                IF i <= loc.user_input_idx
                THEN loc.user_input[i] \notin {"", "*", "#"}
                ELSE loc.user_input[i] = "")
    /\ [][ ( /\ pc = "gup_key" /\ pc' # pc
             /\ loc.key \notin {"*", "#"}
             /\ loc.user_input_idx = MAX_INPUT_CHARS )
           => /\ loc'.user_input = loc.user_input
              /\ loc'.user_input_idx = loc.user_input_idx
              /\ calls' = << >> /\ todo' = << >>
              /\ pc' = "scan" ]_vars

\* the key 7 has arrived with 0, 7, 7, 0, 7 recorded
C30_Witness ==
    /\ pc = "gup_key" /\ Idle /\ calls = << >>
    /\ loc.key = "7"
    /\ loc.user_input_idx = MAX_INPUT_CHARS
    /\ SubSeq(loc.user_input, 1, 5) = << "0", "7", "7", "0", "7" >>

\* Register-Select expected at the k-th Enable rising edge of a call
ExpectedRS(c, k) ==
    CASE c.name \in {"init", "clear_display", "shift_cursor"} -> 0
      [] c.name \in {"write_char", "write_u32"} -> 1
      [] c.name = "write_string" ->
            IF c.text[(k + 1) \div 2] = NEWLINE THEN 0 ELSE 1
      [] c.name = "display_greeting" ->
            IF GreetingText[(k + 1) \div 2] = NEWLINE THEN 0 ELSE 1
      [] c.name = "backspace" -> IF (k - 1) % 6 \in {2, 3} THEN 1 ELSE 0
      [] OTHER -> 2

\* C9: Register-Select is high at every Enable rising edge of a character
\* write and low at every Enable rising edge of a command (init, newline,
\* clear_display, shift_cursor), whatever ran before.
C9_RegisterSelect ==
    \A k \in 1..Len(latched) : latched[k].rs = ExpectedRS(cur, k)

\* a backspace, which latches commands, a character, commands again, has
\* returned
C9_Witness ==
    /\ ReturnedFrom("backspace") /\ Len(latched) = 6
    /\ latched[2].rs = 0 /\ latched[3].rs = 1 /\ latched[6].rs = 0

\* C10: for every character code c in 0..255 the first Enable pulse of a
\* character write latches bits 7..4 of c on D7..D4 and the second latches
\* bits 3..0, with no other data line asserted; there are two pulses.
C10_CharacterNibbles ==
    cur.name = "write_char" =>
        /\ Len(latched) <= 2
        /\ Len(latched) >= 1 => latched[1].d = (cur.val \div 16) % 16
        /\ Len(latched) >= 2 => latched[2].d = cur.val % 16
        /\ Idle => Len(latched) = 2

C10_Witness ==
    /\ ReturnedFrom("write_char") /\ cur.val = 165
    /\ latched = << [rs |-> 1, d |-> 10], [rs |-> 1, d |-> 5] >>

(***************************************************************************)
(* The value get_user_parameter returns                                    *)
(***************************************************************************)
\* the digits recorded in the input buffer, in the order they were entered
Recorded ==
    [i \in 1..loc.user_input_idx |->
        KeyChar(loc.user_input[i]) - ASCII_INT_OFFSET]

\* the number whose decimal digits are ds, the first the most significant
RECURSIVE ValueOf(_)
ValueOf(ds) ==
    IF ds = << >> THEN 0
    ELSE 10 * ValueOf(SubSeq(ds, 1, Len(ds) - 1)) + ds[Len(ds)]

\* a key event is handled by get_user_parameter
GupHandles(keys) == pc = "gup_key" /\ pc' # pc /\ loc.key \in keys

\* C31: when '#' arrives, get_user_parameter returns the decimal value of
\* the digits recorded, the first entered the most significant, 0 when none
\* is recorded; a digit key adds a digit after the others while there is
\* room, '*' removes the last one, so erased digits do not count; the value
\* is at most 99999, and its terms being non-negative no partial sum or
\* product of the computation exceeds it: nothing overflows 32 bits.
C31_AcceptReturnsValue ==
    /\ [][ GupHandles({"#"})
           => LET v == ValueOf(Recorded)
              IN /\ v <= FiveDigitMax
                 /\ (Recorded = << >> => v = 0)
                 /\ IF loc.param = "len"
                    THEN loc'.cut_length = v /\ pc' = "prompt_num"
                    ELSE loc'.num_cuts = v /\ pc' = "confirm" ]_vars
    /\ [][ GupHandles({"0", "7"})
           => Recorded' = IF Len(Recorded) < MAX_INPUT_CHARS
                          THEN Append(Recorded,
                                      KeyChar(loc.key) - ASCII_INT_OFFSET)
                          ELSE Recorded ]_vars
    /\ [][ GupHandles({"*"})
           => Recorded' = SubSeq(Recorded, 1, Len(Recorded) - 1) ]_vars
    /\ [][ (pc' # pc /\ pc \in {"prompt_len", "prompt_num"})
           => Len(Recorded') = 0 ]_vars

\* 707 was accepted as cut length and 7070 as number of cuts
C31_Witness ==
    /\ pc = "confirm"
    /\ loc.cut_length = 707
    /\ loc.num_cuts = 7070

(***************************************************************************)
(* The display during get_user_parameter                                   *)
(***************************************************************************)
\* the prompt of the call of get_user_parameter in progress
PromptText == IF loc.param = "len" THEN PromptCutLength ELSE PromptNumCuts

\* a cleared display: every cell a space, the cursor at the first cell
Blank == [ac |-> 0, cells |-> [x \in DdramAddrs |-> 32]]

\* a cleared display with line1 from the start of line 1 and line2 from the
\* start of line 2, the cursor at column col of line 2
TwoLines(line1, line2, col) ==
    [ ac |-> Line2Start + col,
      cells |-> [x \in DdramAddrs |->
                    IF x < Len(line1) THEN line1[x + 1]
                    ELSE IF x >= Line2Start /\ x < Line2Start + Len(line2)
                         THEN line2[x - Line2Start + 1]
                    ELSE 32] ]

\* the display that shows the prompt text and then the digits ds
PromptShown(text, ds) ==
    LET n == CHOOSE i \in 1..Len(text) : text[i] = NEWLINE
        line2 == SubSeq(text, n + 1, Len(text))
                 \o [i \in 1..Len(ds) |-> ASCII_INT_OFFSET + ds[i]]
    IN TwoLines(SubSeq(text, 1, n - 1), line2, Len(line2))

\* get_user_parameter waits for a key or has one to handle
AwaitsKey ==
    /\ pc \in {"scan", "gup_key"} /\ loc.caller = "gup"
    /\ Idle /\ calls = << >>

\* C32: in get_user_parameter, whenever the program waits for a key or is
\* about to handle one, the display shows the prompt, "-> " on line 2 and
\* after it exactly the recorded digits in order, all other cells blank,
\* with the cursor right after the last digit; each LCD call of the loop is
\* followed from the display its predecessor left: clear_display blanks any
\* display, the prompt is written on the blank display, a digit is written
\* after the digits that were there, and backspace(1) removes the last
\* digit shown, whichever it was.  '*' with no digit recorded makes no LCD
\* call and changes neither buffer nor register.
C32_DisplayShowsInput ==
    /\ [](( /\ Idle /\ cur.name = "clear_display"
            /\ calls # << >> /\ pc = "scan" )
          => /\ Show(DisplayAt(0), latched) = Blank
             /\ Show(PromptShown(PromptNumCuts, << 7, 0, 7, 7, 0 >>), latched)
                    = Blank)
    /\ [](( AwaitsKey /\ cur.name = "write_string" /\ Len(cur.text) > 1 )
          => /\ cur.text = PromptText
             /\ Recorded = << >>
             /\ Show(Blank, latched) = PromptShown(PromptText, << >>))
    /\ [](( AwaitsKey /\ cur.name = "write_string" /\ Len(cur.text) = 1 )
          => /\ Recorded # << >>
             /\ Show(PromptShown(PromptText,
                                 SubSeq(Recorded, 1, Len(Recorded) - 1)),
                     latched)
                    = PromptShown(PromptText, Recorded))
    /\ [](( AwaitsKey /\ cur.name = "backspace" )
          => \A k \in 0..9 :
                Show(PromptShown(PromptText, Append(Recorded, k)), latched)
                    = PromptShown(PromptText, Recorded))
    /\ [](AwaitsKey => cur.name \in {"write_string", "backspace"})
    /\ [][ ( GupHandles({"*"}) /\ loc.user_input_idx = 0 )
           => /\ calls' = << >> /\ todo' = << >>
              /\ loc'.user_input = loc.user_input
              /\ loc'.user_input_idx = 0
              /\ UNCHANGED << gpio, iodir, latched, cur >> ]_vars
    /\ [][ ( GupHandles({"*"}) /\ loc.user_input_idx > 0 )
           => /\ calls' = << CallVal("backspace", 1) >>
              /\ loc'.user_input_idx = loc.user_input_idx - 1 ]_vars

\* 7, 0 and 7 were entered for the number of cuts, the last 7 was erased
\* and the display shows "-> 70" with the cursor behind the 0
C32_Witness ==
    /\ AwaitsKey /\ cur.name = "backspace"
    /\ loc.param = "num"
    /\ Recorded = << 7, 0 >>
    /\ Show(PromptShown(PromptNumCuts, << 7, 0, 7 >>), latched).ac
           = Line2Start + 5

(***************************************************************************)
(* The final confirmation and the cutting loop                             *)
(***************************************************************************)
\* the statements of idle() from the cutting loop on
CutStmts ==
    {"cutting", "cut_loop", "cut_on", "cut_off", "finish", "idle_exit",
     "loop", "loop_exit"}

\* final_confirmation handles a key event
FcHandles == pc = "fc_key" /\ pc' # pc

\* C33: Servo::set_duty is called only in the cutting loop, and the cutting
\* loop is entered only when final_confirmation has been given '#': until
\* then the servo is as Servo::new left it.  '*' at the confirmation makes
\* no call and leads to the prompt for the cut length, whose accepted value
\* leads to the prompt for the number of cuts, whose accepted value leads
\* to the confirmation: both values are entered again from an empty input.
\* Any other key leads to the next scan and changes nothing else.
C33_CutOnlyAfterConfirmation ==
    /\ [](pc \notin CutStmts => servo = 0)
    /\ [][ servo' # servo => pc \in {"cut_on", "cut_off"} ]_vars
    /\ [][ (pc' \in CutStmts /\ pc \notin CutStmts)
           => pc = "fc_key" /\ loc.key = "#" /\ pc' = "cutting" ]_vars
    /\ [][ (FcHandles /\ loc.key = "*")
           => /\ pc' = "prompt_len"
              /\ calls' = << >> /\ todo' = << >>
              /\ UNCHANGED << servo, gpio, iodir >> ]_vars
    /\ [][ (pc' # pc /\ pc = "prompt_len")
           => /\ loc'.param = "len" /\ loc'.caller = "gup"
              /\ loc'.user_input = NoInput /\ loc'.user_input_idx = 0 ]_vars
    /\ [][ (pc' # pc /\ pc' = "prompt_num")
           => /\ pc = "gup_key" /\ loc.key = "#" /\ loc.param = "len"
              /\ loc'.cut_length = ValueOf(Recorded) ]_vars
    /\ [][ (pc' # pc /\ pc = "prompt_num")
           => /\ loc'.param = "num" /\ loc'.caller = "gup"
              /\ loc'.user_input = NoInput /\ loc'.user_input_idx = 0 ]_vars
    /\ [][ (pc' # pc /\ pc' = "confirm")
           => /\ pc = "gup_key" /\ loc.key = "#" /\ loc.param = "num"
              /\ loc'.num_cuts = ValueOf(Recorded) ]_vars
    /\ [][ (FcHandles /\ loc.key \notin {"#", "*"})
           => /\ pc' = "scan"
              /\ calls' = << >> /\ todo' = << >>
              /\ loc' = [loc EXCEPT !.key = ""]
              /\ UNCHANGED << servo, gpio, iodir >> ]_vars

\* the confirmation was rejected with '*' after 1 had been accepted as cut
\* length, and the program waits for the new cut length
C33_Witness ==
    /\ pc = "scan" /\ Idle /\ calls = << >>
    /\ cur.name = "write_string" /\ cur.text = PromptCutLength
    /\ loc.param = "len"
    /\ loc.cut_length = 1
    /\ kp.presses = 4
    /\ servo = 0

\* the statements after the cutting loop
AfterCutting == {"finish", "idle_exit", "loop", "loop_exit"}

\* "Finished Cutting" on line 1 and "Woohoo! <3" on line 2
FinishedShown ==
    TwoLines(SubSeq(TextFinished, 1, 16),
             SubSeq(TextFinished, 18, Len(TextFinished)), 10)

\* C34: with n the number of cuts, i - 1 cut cycles are complete when the
\* loop is at its i-th pass: a cycle sets the duty to 12 and then to 3, the
\* only calls of set_duty, and the loop is left when n cycles are complete.
\* The servo is at duty 3 between the cycles and after the loop when
\* n >= 1 and was never actuated when n = 0; after the loop the display is
\* cleared and shows "Finished Cutting", whatever n.
C34_ExactlyNCutCycles ==
    /\ [](pc \in {"cut_loop", "cut_on"}
          => /\ loc.i \in 1..(loc.num_cuts + 1)
             /\ servo = IF loc.i = 1 THEN 0 ELSE set_duty(3))
    /\ [](pc = "cut_on" => loc.i <= loc.num_cuts)
    /\ [](pc = "cut_off" => servo = set_duty(12) /\ loc.i \in 1..loc.num_cuts)
    /\ [](pc \in AfterCutting
          => /\ loc.i = loc.num_cuts + 1
             /\ servo = IF loc.num_cuts = 0 THEN 0 ELSE set_duty(3))
    /\ [][ servo' # servo
           => \/ pc = "cut_on" /\ servo' = set_duty(12) /\ loc'.i = loc.i
              \/ /\ pc = "cut_off" /\ servo' = set_duty(3)
                 /\ loc'.i = loc.i + 1 ]_vars
    /\ [][ loc'.i # loc.i
           => \/ pc = "cut_off" /\ servo' = set_duty(3)
              \/ pc = "cutting" /\ loc'.i = 1 ]_vars
    /\ [](( pc = "idle_exit" /\ Idle /\ calls = << >> )
          => /\ cur = CallText("write_string", TextFinished)
             /\ Show(Blank, latched) = FinishedShown)
    /\ [](( pc = "idle_exit" /\ Idle /\ cur.name = "clear_display" )
          => Show(DisplayAt(Line2Start + 5), latched) = Blank)

\* nine cuts were asked for and made: the duty is back at 3 after the loop
C34_Witness ==
    /\ pc = "loop" /\ Idle
    /\ loc.num_cuts = 9 /\ loc.i = 10
    /\ servo = set_duty(3)

(***************************************************************************)
(* The columns the workflow writes                                         *)
(***************************************************************************)
\* the column of a cell on its line, counted from 0
Column(a) == IF a >= Line2Start THEN a - Line2Start ELSE a

\* executed from the display d, the nibbles ns write no character beyond
\* the 16th column and shift the cursor left from no first column
RECURSIVE InBounds(_, _)
InBounds(d, ns) ==
    IF Len(ns) < 2 THEN TRUE
    ELSE LET byte == ns[1].d * 16 + ns[2].d
         IN /\ ns[1].rs = 1 => Column(d.ac) < LCD_MAX_LINE_LENGTH
            /\ (ns[1].rs = 0 /\ byte = 16) => Column(d.ac) > 0
            /\ InBounds(Exec(d, ns[1].rs, byte), Tail(Tail(ns)))

RECURSIVE IntendedAll(_)
IntendedAll(cs) ==
    IF cs = << >> THEN << >>
    ELSE Intended(Head(cs)) \o IntendedAll(Tail(cs))

\* the operations that move the cursor or write characters
LcdNames ==
    {"display_greeting", "clear_display", "write_string", "write_u32",
     "backspace", "shift_cursor"}

\* the digit get_user_parameter recorded last
LastRecorded == Recorded[Len(Recorded)]

\* the calls of the statement of the workflow whose calls are being made
StmtCalls ==
    CASE pc = "prompt_len" ->
            << CallOf("display_greeting"),
               CallVal("delay_ms", GREETING_DUR_IN_MS) >>
      [] pc = "scan" /\ loc.caller = "gup" /\ cur.name = "backspace" ->
            << CallVal("backspace", 1) >>
      [] /\ pc = "scan" /\ loc.caller = "gup" /\ cur.name = "write_string"
         /\ Len(cur.text) = 1 /\ Recorded # << >> ->
            << CallText("write_string",
                        << ASCII_INT_OFFSET + LastRecorded >>) >>
      [] pc = "scan" /\ loc.caller = "gup" ->
            << CallOf("clear_display"),
               CallText("write_string", PromptText) >>
      [] pc = "scan" /\ loc.caller = "fc" ->
            << CallOf("clear_display"), CallVal("write_u32", loc.cut_length),
               CallText("write_string", TextInX),
               CallVal("write_u32", loc.num_cuts),
               CallText("write_string", TextOk) >>
      [] pc = "cut_loop" ->
            << CallOf("clear_display"), CallText("write_string", TextCutting),
               CallVal("write_u32", loc.num_cuts),
               [CallOf("shift_cursor") EXCEPT !.dir = Left, !.val = 8] >>
      [] pc = "cut_on" ->
            << CallVal("backspace", 5), CallVal("write_u32", loc.i) >>
      [] pc = "idle_exit" ->
            << CallOf("clear_display"), CallText("write_string", TextFinished) >>
      [] OTHER -> << >>

\* how many calls of the statement have been made
Made == Len(StmtCalls) - Len(calls)

\* the call in progress or returned last is the Made-th of the statement
Tracked ==
    /\ Made >= 1
    /\ cur = StmtCalls[Made]
    /\ calls = SubSeq(StmtCalls, Made + 1, Len(StmtCalls))

\* "Cutting..." on line 1, the counter i, " / " and the total on line 2,
\* the cursor behind the counter (column col)
CutShown(counter, col) ==
    TwoLines(SubSeq(TextCutting, 1, 10),
             counter \o << 32, 47, 32 >> \o Decimal(loc.num_cuts, 5), col)

\* the display when the statement in progress made its first call: the one
\* the statement before it left, or any when the statement starts with
\* clear_display; after power-on the display is blank, the cursor at cell 0
StmtStart ==
    CASE pc = "scan" /\ loc.caller = "gup" /\ cur.name = "backspace" ->
            PromptShown(PromptText, Append(Recorded, 1))
      [] /\ pc = "scan" /\ loc.caller = "gup" /\ cur.name = "write_string"
         /\ Len(cur.text) = 1 /\ Recorded # << >> ->
            PromptShown(PromptText, SubSeq(Recorded, 1, Len(Recorded) - 1))
      [] pc = "cut_on" -> CutShown(Decimal(loc.i - 1, 5), 5)
      [] OTHER -> DisplayAt(0)

\* the nibbles latched since the statement in progress made its first call
StmtNibbles == IntendedAll(SubSeq(StmtCalls, 1, Made - 1)) \o latched

\* C35: every LCD call of the workflow, from the greeting to the finish
\* message, is made on the display its predecessors left, latches the
\* nibbles it is meant to, writes no character beyond the 16th column of a
\* line and shifts the cursor left from no first column.  In the cutting
\* loop the display shows the counter 00000 and the total with the cursor
\* behind the counter when the loop is entered, backspace(5) blanks the five
\* cells of the counter and nothing else, and write_u32(i) writes i into
\* them: " / " and the total stay as they were.
C35_ColumnsInBounds ==
    /\ [][ (cur' # cur /\ cur'.name \in LcdNames) => Tracked' ]_vars
    /\ [](( Tracked /\ cur.name \in LcdNames )
          => /\ InBounds(StmtStart, StmtNibbles)
             /\ Idle => latched = Intended(cur))
    /\ [](( Tracked /\ Idle /\ pc = "cut_loop" /\ Made = 4 )
          => Show(StmtStart, StmtNibbles) = CutShown(Decimal(0, 5), 5))
    /\ [](( Tracked /\ Idle /\ pc = "cut_on" /\ Made = 1 )
          => Show(StmtStart, StmtNibbles)
                 = CutShown(<< 32, 32, 32, 32, 32 >>, 0))
    /\ [](( Tracked /\ Idle /\ pc = "cut_on" /\ Made = 2 )
          => Show(StmtStart, StmtNibbles) = CutShown(Decimal(loc.i, 5), 5))

\* the counter of the first cut has been written in the cutting loop
C35_Witness ==
    /\ Tracked /\ Idle /\ pc = "cut_on" /\ Made = 2
    /\ loc.i = 1 /\ loc.num_cuts = 1
    /\ Show(StmtStart, StmtNibbles).cells[Line2Start + 4] = ASCII_INT_OFFSET + 1
    /\ Show(StmtStart, StmtNibbles).cells[Line2Start + 12]
           = ASCII_INT_OFFSET + 1

\* the driver calls made or queued
CallsPending == {cur} \cup {calls[j] : j \in 1..Len(calls)}

\* C36: the values get_user_parameter returns are at most 99999; the values
\* passed to write_u32 are those two, by final_confirmation and by the
\* cutting screen, and the running index i of the cutting loop, which is
\* between 1 and the number of cuts when it is passed; so each is at most
\* 99999 and is written as its five decimal digits.
C36_WriteU32ValuesFit ==
    /\ loc.cut_length <= FiveDigitMax
    /\ loc.num_cuts <= FiveDigitMax
    /\ pc \in {"cut_on", "cut_off"} => loc.i \in 1..loc.num_cuts
    /\ \A c \in CallsPending :
          c.name = "write_u32"
          => /\ \/ c.val \in {loc.cut_length, loc.num_cuts}
                \/ pc \in {"cut_on", "cut_off"} /\ c.val = loc.i
             /\ c.val \in 0..FiveDigitMax
    /\ ( Idle /\ cur.name = "write_u32" )
       => latched = TextNibbles(Decimal(cur.val, MAX_INPUT_CHARS))

\* the cutting loop has written its index 10 at the tenth of 99 cuts of
\* length 99999
C36_Witness ==
    /\ pc = "cut_on" /\ Idle /\ calls = << >>
    /\ cur.name = "write_u32" /\ cur.val = 10
    /\ loc.i = 10
    /\ loc.cut_length = FiveDigitMax /\ loc.num_cuts = 99
    /\ latched = TextNibbles(<< 48, 48, 48, 49, 48 >>)

(***************************************************************************)
(* The TIMER1 interrupt handler                                            *)
(***************************************************************************)
\* the handler is entered at the next step it is given
HandlerCanRun == ~Aborted /\ irq.pending /\ irq.unmasked /\ ~primask

\* the step is a run of the handler to its end: it alone clears the event
HandlerRan == irq.pending /\ ~irq'.pending

\* C37: whenever TIMER1() can run, TIMER1_HANDLE holds the timer and is not
\* borrowed: the main context borrows it only with interrupts masked, and
\* the interrupt is pending only after the handle was stored.  So neither
\* borrow_mut() nor unwrap() of the handler fails, and nothing in the
\* program panics.  A run of the handler restarts the timer and leaves the
\* registers of both chips, the call in progress and the bus as they are.
C37_HandlerFindsHandle ==
    /\ [](HandlerCanRun => handle.t1 = "Some" /\ ~handle.borrowed)
    /\ [](handle.borrowed => primask)
    /\ [](irq.pending => handle.t1 = "Some")
    /\ [](fault # "panic")
    /\ [](bus_ctx # "isr")
    /\ [][ HandlerRan
           => /\ HandlerCanRun
              /\ ~elapsed'
              /\ UNCHANGED << gpio, iodir, rd_buffer, todo, cur, latched,
                              bus_ctx, handle, pc, calls >> ]_vars

\* the handler has run while keypad::init was about to write IODIR
C37_Witness ==
    /\ isr_ret = [call |-> "keypad_init", left |-> 1]
    /\ handle = [t1 |-> "Some", borrowed |-> FALSE]
    /\ ~irq.pending
    /\ fault = "none"

(***************************************************************************)
(* Termination of the workflow                                             *)
(***************************************************************************)
\* the program scans for a key on behalf of caller c
ScansFor(c) == pc = "scan" /\ loc.caller = c

\* a scan made for caller c has detected '#'
PoundDetected(c) == pc = "debounce" /\ loc.caller = c /\ loc.key = "#"

\* the finish message has been written on the cleared display
FinishedDisplayed ==
    /\ pc = "idle_exit" /\ Idle /\ calls = << >>
    /\ cur = CallText("write_string", TextFinished)
    /\ Show(Blank, latched) = FinishedShown

\* the idle loop, with nothing to do or queued but its delay
IdleLoop ==
    /\ pc \in {"loop", "loop_exit"}
    /\ \A j \in 1..Len(calls) : calls[j].name = "delay_ms"
    /\ \A j \in 1..Len(todo) : todo[j].k = "delay"

\* the user ends the scans made for caller c: they are made only finitely
\* often, or again and again one of them detects '#'
PoundPressed(c) == <>[]~ScansFor(c) \/ []<>PoundDetected(c)

\* C38: when no bus transaction fails, whether or not TIMER1 fires, if every
\* key pressed is released again and at each prompt and at the final
\* confirmation a scan eventually detects '#', then from some point on the
\* program is in the idle loop for ever, with nothing to do or queued but
\* the delay of the loop: no LCD, keypad or servo operation.  The program
\* does not start in the idle loop and enters it only from the state in which
\* the finish message is on the display, so the message is displayed before.
C38_WorkflowTerminates ==
    /\ ~IdleLoop
    /\ [][ (~IdleLoop /\ IdleLoop') => FinishedDisplayed ]_vars
    /\ ( /\ []<>(kp.down = {})
         /\ PoundPressed("gup")
         /\ PoundPressed("fc") )
       => <>[]IdleLoop

\* the program is in the idle loop after one cut
C38_Witness ==
    /\ pc = "loop_exit" /\ IdleLoop /\ todo # << >>
    /\ cur.name = "delay_ms" /\ cur.val = 500
    /\ loc.num_cuts = 1
    /\ gpio[I2C_ADDR_LCD] >= MASK_PWR


(***************************************************************************)
(* The regions of the bump allocator                                       *)
(***************************************************************************)
\* the calls of alloc() that returned a region
Regions == {i \in DOMAIN returned : returned[i].ptr # Null}

\* the bytes of the arena a returned region takes
Bytes(r) == r.ptr .. (r.ptr + r.size - 1)

InArena(r) == 0 <= r.ptr /\ r.ptr + r.size <= ARENA_SIZE

AlignedAsAsked(r) == r.ptr % r.align = 0

\* a call of alloc() returns in this step, and what it returns
AllocReturns == Len(returned') = Len(returned) + 1
Result == returned'[Len(returned')]

\* C39: however the calls of alloc() interleave, every region returned lies
\* inside the arena of ARENA_SIZE bytes and starts at a multiple of the
\* alignment asked for, and no two regions returned share a byte; a call
\* whose size exceeds the remaining space or whose alignment exceeds
\* MAX_SUPPORTED_ALIGN returns null, remaining changes only in the step
\* that returns a region, and it never increases, dealloc() leaving it as
\* it is
C39_RegionsDisjointInArena ==
    /\ [](\A i \in Regions :
            /\ InArena(returned[i])
            /\ AlignedAsAsked(returned[i])
            /\ \A j \in Regions \ {i} :
                Bytes(returned[i]) \cap Bytes(returned[j]) = {})
    /\ [][ (AllocReturns /\ (\/ Result.size > remaining
                             \/ Result.align > MAX_SUPPORTED_ALIGN))
           => (Result.ptr = Null /\ remaining' = remaining) ]_vars
    /\ [][ (remaining' # remaining)
           => (AllocReturns /\ Result.ptr = remaining') ]_vars
    /\ [][ remaining' <= remaining ]_vars

\* two calls loaded the same value of remaining; one of them has returned
\* a region and the other is about to fail its exchange, after one call was
\* refused for its size or its alignment
C39_Witness ==
    /\ Regions # {}
    /\ \E i \in DOMAIN returned : returned[i].ptr = Null
    /\ \E c \in Contexts :
        /\ alloc_call[c].at = "cas"
        /\ alloc_call[c].prev # remaining
        /\ alloc_call[c].prev = ARENA_SIZE

=============================================================================
